---- MODULE Spec2Model ----
(***************************************************************************)
(* Model of the Terraform generation backend (mahj1966/ssp_api):           *)
(*   - the orchestrator generate_terraform (app/routes/terraform_routes)   *)
(*   - OracleDBService (app/services/db_service)                           *)
(*   - JinjaService.render_terraform_code, GitLabService                   *)
(*   - the second code line under ssp_api_new (OracleDBClient,             *)
(*     GitLabClient)                                                       *)
(* Python None is the string "None"; the empty dict is the function <<>>.  *)
(* Texts (templates, rendered code) are sequences of atoms.                *)
(***************************************************************************)
EXTENDS Integers, Sequences, FiniteSets, TLC

VARIABLES
    requests_view,    \* rows of v_aws_rds_requests, by id (NoneT when absent)
    tf_template,      \* table tf_template: <<cloud, type, version>> -> template
    ledger,           \* table terraform_requests_status: a sequence of rows
    clock,            \* SYSTIMESTAMP of the store
    db_instance,      \* OracleDBService._instance: "none" | "ok" | "nopool"
    cache_templates,  \* the TTLCache behind get_jinja_template: its entries,
                      \* least recently used first
    timer,            \* time.monotonic(), the timer of the TTLCache, in seconds
    gl_branches,      \* hosting service: branch name -> files (path -> content)
    gl_mrs,           \* hosting service: the merge requests, in creation order
    pc,               \* position of each worker in generate_terraform
    req,              \* the request payload each worker is serving
    loc,              \* the local variables of generate_terraform
    trace,            \* the calls made while serving the current request
    response,         \* the response returned for the current request
    nreq,             \* number of requests accepted so far
    failed_ids,       \* request ids whose latest finished attempt was not a 200
    recovered,        \* request ids whose latest attempt passed after one that failed
    threaded,         \* whether the server runs handlers concurrently
    result            \* what the last direct call on a service returned

vars == <<requests_view, tf_template, ledger, clock, db_instance, cache_templates, timer,
          gl_branches, gl_mrs, pc, req, loc, trace, response, nreq, failed_ids,
          recovered, threaded, result>>

----------------------------------------------------------------------------
(* Bounds of the model *)

MaxRequests == 3      \* requests accepted in one behaviour
MaxRequestId == 2     \* request ids 1..MaxRequestId are tried
MaxSaves == 3         \* direct save_generation_status calls in one behaviour
MaxChars == 4         \* characters of a string given to a filter
MaxItems == 2         \* items of a list given to a filter
MaxPieces == 3        \* pieces a text given to the validator is made of
MaxRows == 32         \* rows a ledger read by get_user_status_history holds
TimeStep == 300       \* seconds between two readings of the timer
MaxTicks == 2         \* the timer is followed up to MaxTicks * TimeStep seconds

----------------------------------------------------------------------------
(* Values *)

None == "None"
EmptyMap == <<>>

Threads == {1, 2}
RequestIds == 1..MaxRequestId
CloudIds == {"aws", "alicloud"}
ResourceTypes == {"rds", "rds;--"}
Usernames == {"alice", "bob"}

\* an optional value: Python None, or a value
NoneT == [some |-> FALSE]
Some(x) == [some |-> TRUE, v |-> x]

\* a template token is a literal atom, a variable reference or a syntax error
Lit(a) == [k |-> "lit", v |-> a]
Var(n) == [k |-> "var", v |-> n]
BadSyntax == [k |-> "bad", v |-> ""]

\* texts are sequences of characters; a value substituted for a variable is
\* one symbol of the text
Resource == <<"r", "e", "s", "o", "u", "r", "c", "e">>

\* the literal tokens of a piece of template text
LitText(text) == [i \in 1..Len(text) |-> Lit(text[i])]

\* resource {{ name }} {}
T_ok == LitText(Resource) \o <<Lit(" "), Var("name"), Lit(" "), Lit("{"), Lit("}")>>
\* resource {% } {}
T_badsyntax == LitText(Resource) \o <<Lit(" "), BadSyntax, Lit(" "), Lit("{"), Lit("}")>>
\* resource {{ name }}
T_nobrace == LitText(Resource) \o <<Lit(" "), Var("name")>>

TemplateTable ==
    (<<"aws", "rds", "1.0">> :> T_ok) @@
    (<<"aws", "rds", "1.1">> :> T_badsyntax) @@
    (<<"aws", "rds", "1.2">> :> T_nobrace)

\* the rows the upstream intake process may have stored for request id 1
BaseRow == [id |-> 1, name |-> "db1", module_version |-> "1.0", gitlab_project_id |-> "p7"]
NoNameRow == [id |-> 1, module_version |-> "1.0", gitlab_project_id |-> "p7"]
RowVariants ==
    { BaseRow,
      [BaseRow EXCEPT !.module_version = None],
      [BaseRow EXCEPT !.module_version = "2.0"],
      [BaseRow EXCEPT !.module_version = "1.1"],
      [BaseRow EXCEPT !.module_version = "1.2"],
      [BaseRow EXCEPT !.gitlab_project_id = None],
      NoNameRow }

\* table users: login -> gitlab_token (bob has no row)
UsersTable == ("alice" :> "tok_alice")

\* rows of v_aws_rds_requests_sg_ingress, in the order the store returns them
SgIngressRows ==
    << [request_id |-> 2, from_port |-> "22"],
       [request_id |-> 1, from_port |-> "5432"],
       [request_id |-> 1, from_port |-> "443"] >>

\* SELECT * FROM v_aws_rds_requests_sg_ingress WHERE request_id = :request_id
SgIngress(id) ==
    LET OfRequest(rule) == rule.request_id = id
    IN  SelectSeq(SgIngressRows, OfRequest)

\* projects the hosting service knows
GitlabProjects == {"p7"}

\* dict.get(key, default)
Get(d, key, default) == IF key \in DOMAIN d THEN d[key] ELSE default

\* Python truthiness of a string-or-None value
Falsy(x) == x = None \/ x = ""

----------------------------------------------------------------------------
(* OracleDBService: each operator gives what the method returns (ret), whether
   pool.acquire() was called (acq), the view names it built from its arguments
   (built) and the tables or views it queried (queries).
   db is the state of the singleton: "nopool" when create_pool raised in
   __init_once, so that self.pool raises inside the method's try block.
   fault is the store fault injected into this call. *)

\* the interleavings of two workers are followed on a store that does not fault
DbFaults == IF threaded THEN {"none"} ELSE {"none", "acquire", "execute"}

ViewName(cloud_id, resource_type) == <<"v", cloud_id, resource_type, "requests">>
SgViewName(cloud_id, resource_type) == <<"v", cloud_id, resource_type, "requests_sg_ingress">>

\* the views the store defines; a query on any other name is a store error
ViewExists(name) == name = ViewName("aws", "rds")

\* SELECT ... FROM <name> WHERE id = :request_id
SelectRow(view, name, request_id) ==
    IF ViewExists(name) /\ request_id \in DOMAIN view THEN view[request_id] ELSE NoneT

NoQuery(ret) == [ret |-> ret, acq |-> FALSE, built |-> << >>, queries |-> << >>]

Built(r, names) == [r EXCEPT !.built = names]

\* _get_sg_rules whose query has no WHERE clause
_get_sg_rules_unfiltered(cloud_id, resource_type, request_id, fault) ==
    IF fault = "sg" THEN << >> ELSE SgIngressRows

_get_sg_rules(cloud_id, resource_type, request_id, fault) ==
    IF fault = "sg" THEN << >> ELSE SgIngress(request_id)

\* allowed_clouds with the check taken away: every cloud asked for passes
allowed_clouds_unchecked == CloudIds

\* allowed_clouds with the cloud of the other code line let through
allowed_clouds_wider == {"aws", "gcp", "azure", "alicloud"}

allowed_clouds == {"aws", "gcp", "azure"}

get_resource_data(db, view, cloud_id, resource_type, request_id, fault) ==
    LET view_name == ViewName(cloud_id, resource_type)
        row == SelectRow(view, view_name, request_id)
    IN  IF cloud_id \notin allowed_clouds THEN NoQuery(EmptyMap)
        ELSE IF db = "nopool" THEN Built(NoQuery(EmptyMap), <<view_name>>)
        ELSE IF fault = "acquire"
        THEN [ret |-> EmptyMap, acq |-> TRUE, built |-> <<view_name>>, queries |-> << >>]
        ELSE IF fault = "execute" \/ ~ViewExists(view_name) \/ ~row.some
        THEN [ret |-> EmptyMap, acq |-> TRUE, built |-> <<view_name>>,
              queries |-> <<view_name>>]
        ELSE [ret |-> [c \in DOMAIN row.v \cup {"sg_rules"} |->
                         IF c = "sg_rules"
                         THEN _get_sg_rules(cloud_id, resource_type, request_id, fault)
                         ELSE row.v[c]],
              acq |-> TRUE,
              built |-> <<view_name, SgViewName(cloud_id, resource_type)>>,
              queries |-> <<view_name, SgViewName(cloud_id, resource_type)>>]

\* the function under @cached(cache_templates): the query itself
query_jinja_template(db, table, cloud_id, resource_type, module_version, fault) ==
    IF db = "nopool" THEN NoQuery(NoneT)
    ELSE IF fault = "acquire"
    THEN [ret |-> NoneT, acq |-> TRUE, built |-> << >>, queries |-> << >>]
    ELSE LET key == <<cloud_id, resource_type, module_version>>
         IN [ret |-> IF fault = "none" /\ key \in DOMAIN table THEN Some(table[key]) ELSE NoneT,
             acq |-> TRUE, built |-> << >>, queries |-> << "tf_template" >>]

\* cache_templates = TTLCache(maxsize=100, ttl=600)
maxsize == 100
ttl == 600

\* an entry of the cache: the value stored under the key, and the time at
\* which it expires
Entry(key, value, expires) == [key |-> key, value |-> value, expires |-> expires]

HasKey(cache, key) == \E i \in 1..Len(cache) : cache[i].key = key

EntryOf(cache, key) == cache[CHOOSE i \in 1..Len(cache) : cache[i].key = key]

Without(cache, key) ==
    LET Other(e) == e.key # key
    IN  SelectSeq(cache, Other)

\* Expired that keeps an entry one reading of the timer too long
Expired_late(e, now) == ~(now <= e.expires)

\* TTLCache: an entry is expired unless timer() < link.expires
Expired(e, now) == ~(now < e.expires)

\* TTLCache.expire(time): every expired entry is removed
expire(cache, now) ==
    LET Live(e) == ~Expired(e, now)
    IN  SelectSeq(cache, Live)

\* popitem that removes the most recently used entry
popitem_newest(cache) == SubSeq(cache, 1, Len(cache) - 1)

\* TTLCache.popitem(): the least recently used entry is removed
popitem(cache) == Tail(cache)

\* TTLCache.__getitem__(key): the link of the key moves to the end of the
\* order of use; an absent or expired key is a KeyError (found = FALSE)
getitem(cache, key, now) ==
    IF HasKey(cache, key)
    THEN [found |-> ~Expired(EntryOf(cache, key), now),
          value |-> EntryOf(cache, key).value,
          cache |-> Without(cache, key) \o <<EntryOf(cache, key)>>]
    ELSE [found |-> FALSE, value |-> NoneT, cache |-> cache]

\* TTLCache.__setitem__(key, value): expired entries are removed, then room is
\* made for a new key, then the entry is stored, expiring ttl seconds from now
setitem(cache, key, value, now) ==
    LET live == expire(cache, now)
        room == IF ~HasKey(live, key) /\ Len(live) + 1 > maxsize THEN popitem(live) ELSE live
    IN  Without(room, key) \o <<Entry(key, value, now + ttl)>>

\* get_jinja_template storing what the function returns unless it is None
get_jinja_template_skipnone(db, cache, now, table, cloud_id, resource_type, module_version, fault) ==
    LET key == <<cloud_id, resource_type, module_version>>
        got == getitem(cache, key, now)
    IN  IF got.found
        THEN NoQuery(got.value) @@ [cache |-> got.cache]
        ELSE LET r == query_jinja_template(db, table, cloud_id, resource_type, module_version, fault)
             IN  r @@ [cache |-> IF r.ret.some THEN setitem(got.cache, key, r.ret, now)
                                 ELSE got.cache]

\* get_jinja_template under @cached(cache_templates): a value found in the
\* cache is returned without calling the function; otherwise the function is
\* called and what it returns, None included, is stored
get_jinja_template(db, cache, now, table, cloud_id, resource_type, module_version, fault) ==
    LET key == <<cloud_id, resource_type, module_version>>
        got == getitem(cache, key, now)
    IN  IF got.found
        THEN NoQuery(got.value) @@ [cache |-> got.cache]
        ELSE LET r == query_jinja_template(db, table, cloud_id, resource_type, module_version, fault)
             IN  r @@ [cache |-> setitem(got.cache, key, r.ret, now)]

\* get_user_gitlab_token whose query fault goes unnoticed: the row is returned
get_user_gitlab_token_unguarded(db, username, fault) ==
    IF db = "nopool" THEN NoQuery(None)
    ELSE IF fault = "acquire"
    THEN [ret |-> None, acq |-> TRUE, built |-> << >>, queries |-> << >>]
    ELSE [ret |-> IF username \in DOMAIN UsersTable THEN UsersTable[username] ELSE None,
          acq |-> TRUE, built |-> << >>, queries |-> << "users" >>]

get_user_gitlab_token(db, username, fault) ==
    IF db = "nopool" THEN NoQuery(None)
    ELSE IF fault = "acquire"
    THEN [ret |-> None, acq |-> TRUE, built |-> << >>, queries |-> << >>]
    ELSE [ret |-> IF fault = "none" /\ username \in DOMAIN UsersTable
                  THEN UsersTable[username] ELSE None,
          acq |-> TRUE, built |-> << >>, queries |-> << "users" >>]

get_gitlab_project_id(db, view, cloud_id, resource_type, request_id, fault) ==
    LET view_name == ViewName(cloud_id, resource_type)
        row == SelectRow(view, view_name, request_id)
    IN  IF db = "nopool" THEN Built(NoQuery(None), <<view_name>>)
        ELSE IF fault = "acquire"
        THEN [ret |-> None, acq |-> TRUE, built |-> <<view_name>>, queries |-> << >>]
        ELSE [ret |-> IF fault = "none" /\ row.some THEN row.v.gitlab_project_id ELSE None,
              acq |-> TRUE, built |-> <<view_name>>, queries |-> <<view_name>>]

----------------------------------------------------------------------------
(* The status ledger: MERGE INTO terraform_requests_status *)

Matched(rows, apex_request_id) ==
    \E i \in 1..Len(rows) : rows[i].apex_request_id = apex_request_id

\* MergeStatus without its WHEN MATCHED branch: a plain INSERT
MergeStatus_insert(rows, now, apex_request_id, username, cloud_id, resource_type, status, message, merge_request_url) ==
    Append(rows, [apex_request_id |-> apex_request_id, username |-> username,
                  cloud_id |-> cloud_id, resource_type |-> resource_type,
                  status |-> status, message |-> message, started_at |-> now,
                  finished_at |-> 0, merge_request_url |-> merge_request_url])

\* MergeStatus whose UPDATE also sets the columns of the caller
MergeStatus_overwrite(rows, now, apex_request_id, username, cloud_id, resource_type, status, message, merge_request_url) ==
    IF Matched(rows, apex_request_id)
    THEN [i \in 1..Len(rows) |->
            IF rows[i].apex_request_id = apex_request_id
            THEN [rows[i] EXCEPT !.username = username, !.cloud_id = cloud_id,
                                 !.resource_type = resource_type,
                                 !.status = status, !.message = message,
                                 !.finished_at = now,
                                 !.merge_request_url = merge_request_url]
            ELSE rows[i]]
    ELSE Append(rows, [apex_request_id |-> apex_request_id, username |-> username,
                       cloud_id |-> cloud_id, resource_type |-> resource_type,
                       status |-> status, message |-> message, started_at |-> now,
                       finished_at |-> 0, merge_request_url |-> merge_request_url])

MergeStatus(rows, now, apex_request_id, username, cloud_id, resource_type, status, message, merge_request_url) ==
    IF Matched(rows, apex_request_id)
    THEN [i \in 1..Len(rows) |->
            IF rows[i].apex_request_id = apex_request_id
            THEN [rows[i] EXCEPT !.status = status, !.message = message,
                                 !.finished_at = now,
                                 !.merge_request_url = merge_request_url]
            ELSE rows[i]]
    ELSE Append(rows, [apex_request_id |-> apex_request_id, username |-> username,
                       cloud_id |-> cloud_id, resource_type |-> resource_type,
                       status |-> status, message |-> message, started_at |-> now,
                       finished_at |-> 0, merge_request_url |-> merge_request_url])

\* save_generation_status: a fault (acquire, execute or commit) is logged and
\* swallowed, and nothing is committed
\* save_generation_status on a connection that commits each statement by itself
save_generation_status_autocommit(db, rows, now, apex_request_id, username, cloud_id, resource_type, status, message, merge_request_url, fault) ==
    IF db = "nopool" \/ fault \in {"acquire", "execute"} THEN rows
    ELSE MergeStatus(rows, now, apex_request_id, username, cloud_id, resource_type,
                     status, message, merge_request_url)

save_generation_status(db, rows, now, apex_request_id, username, cloud_id, resource_type, status, message, merge_request_url, fault) ==
    IF db = "nopool" \/ fault # "none" THEN rows
    ELSE MergeStatus(rows, now, apex_request_id, username, cloud_id, resource_type,
                     status, message, merge_request_url)

\* FETCH NEXT 20 ROWS ONLY
history_limit == 20

\* ORDER BY started_at DESC: the place of row i among the rows; tie tells
\* which of two rows with the same started_at the store puts first
PlaceDesc(rows, i, tie) ==
    1 + Cardinality({j \in 1..Len(rows) :
                        \/ rows[j].started_at > rows[i].started_at
                        \/ /\ rows[j].started_at = rows[i].started_at
                           /\ IF tie THEN j < i ELSE j > i})

OrderByStartedAtDesc(rows, tie) ==
    [k \in 1..Len(rows) |-> rows[CHOOSE i \in 1..Len(rows) : PlaceDesc(rows, i, tie) = k]]

FetchNext(rows, n) == SubSeq(rows, 1, IF Len(rows) < n THEN Len(rows) ELSE n)

\* get_user_status_history without FETCH NEXT 20 ROWS ONLY
get_user_status_history_unbounded(db, rows, username, fault, tie) ==
    LET OfUser(row) == row.username = username
    IN  IF db = "nopool" \/ fault # "none" THEN << >>
        ELSE OrderByStartedAtDesc(SelectSeq(rows, OfUser), tie)

\* get_user_status_history: the rows of the user, most recent first, 20 at
\* most; any fault is logged and gives the empty list
get_user_status_history(db, rows, username, fault, tie) ==
    LET OfUser(row) == row.username = username
    IN  IF db = "nopool" \/ fault # "none" THEN << >>
        ELSE FetchNext(OrderByStartedAtDesc(SelectSeq(rows, OfUser), tie), history_limit)

----------------------------------------------------------------------------
(* The filters JinjaService adds to the environment. A value handed to a
   filter is None, a string (its characters), an integer, a boolean or a
   list of such values. *)

PyStr(chars) == [t |-> "str", chars |-> chars]
PyList(items) == [t |-> "list", items |-> items]

\* bool(value)
Truthy(value) ==
    CASE value.t = "none" -> FALSE
      [] value.t = "str" -> Len(value.chars) > 0
      [] value.t = "int" -> value.n # 0
      [] value.t = "bool" -> value.b
      [] value.t = "list" -> Len(value.items) > 0

\* ", ".join(texts)
RECURSIVE join(_)
join(texts) ==
    IF texts = << >> THEN << >>
    ELSE IF Len(texts) = 1 THEN texts[1]
    ELSE texts[1] \o <<",", " ">> \o join(Tail(texts))

\* str(value), what an f-string puts in place of {value}
RECURSIVE Str(_)
Str(value) ==
    LET Digit == <<"0", "1", "2", "3", "4", "5", "6", "7", "8", "9">>
    IN  CASE value.t = "none" -> <<"N", "o", "n", "e">>
          [] value.t = "str" -> value.chars
          [] value.t = "int" ->
                 IF value.n < 10 THEN <<Digit[value.n + 1]>>
                 ELSE Str([t |-> "int", n |-> value.n \div 10]) \o <<Digit[(value.n % 10) + 1]>>
          [] value.t = "bool" -> IF value.b THEN <<"T", "r", "u", "e">> ELSE <<"F", "a", "l", "s", "e">>
          [] value.t = "list" ->
                 LET repr(item) == IF item.t = "str" THEN <<"'">> \o item.chars \o <<"'">>
                                   ELSE Str(item)
                 IN  <<"[">> \o join([i \in 1..Len(value.items) |-> repr(value.items[i])]) \o <<"]">>

\* f'"{value}"'
Quoted(value) == <<"\"">> \o Str(value) \o <<"\"">>

_to_terraform_string(value) == IF value.t = "none" THEN <<"n", "u", "l", "l">> ELSE Quoted(value)

\* text.strip(): the text without the whitespace at its two ends
RECURSIVE strip(_)
strip(text) ==
    LET Whitespace == {" ", "\t", "\n"}
    IN  IF text # << >> /\ Head(text) \in Whitespace THEN strip(Tail(text))
        ELSE IF text # << >> /\ text[Len(text)] \in Whitespace
        THEN strip(SubSeq(text, 1, Len(text) - 1))
        ELSE text

\* text.split(','): the pieces between the commas, one more than there are commas
RECURSIVE split(_)
split(text) ==
    IF \E i \in 1..Len(text) : text[i] = ","
    THEN LET i == CHOOSE k \in 1..Len(text) :
                      text[k] = "," /\ \A j \in 1..(k - 1) : text[j] # ","
         IN  <<SubSeq(text, 1, i - 1)>> \o split(SubSeq(text, i + 1, Len(text)))
    ELSE <<text>>

\* value.startswith('[') and value.endswith(']') of a string
Bracketed(value) ==
    value.t = "str" /\ Len(value.chars) > 0 /\ value.chars[1] = "["
        /\ value.chars[Len(value.chars)] = "]"

\* jinja_service lines 30-44: the items that are falsy are left out
_to_terraform_list(value) ==
    IF ~Truthy(value) THEN <<"[", "]">>
    ELSE LET pieces == split(SubSeq(value.chars, 2, Len(value.chars) - 1))
             items == IF Bracketed(value)
                      THEN [i \in 1..Len(pieces) |-> PyStr(strip(pieces[i]))]
                      ELSE IF value.t = "list" THEN value.items
                      ELSE <<value>>
             kept == SelectSeq(items, Truthy)
         IN  <<"[">> \o join([i \in 1..Len(kept) |-> Quoted(kept[i])]) \o <<"]">>

----------------------------------------------------------------------------
(* JinjaService.render_terraform_code and GitLabService.validate_terraform_files *)

\* render_terraform_code putting the name of a variable where its value belongs
render_terraform_code_names(template_str, data) ==
    IF \E i \in 1..Len(template_str) : template_str[i].k = "bad"
    THEN NoneT
    ELSE Some([i \in 1..Len(template_str) |-> template_str[i].v])

\* env.from_string raises on a syntax error; the default Undefined renders a
\* name missing from the data as the empty string
render_terraform_code(template_str, data) ==
    LET Rendered(i) == IF template_str[i].k = "var"
                       THEN Get(data, template_str[i].v, "")
                       ELSE template_str[i].v
        NotEmpty(x) == x # ""
    IN  IF \E i \in 1..Len(template_str) : template_str[i].k = "bad"
        THEN NoneT
        ELSE Some(SelectSeq([i \in 1..Len(template_str) |-> Rendered(i)], NotEmpty))

\* s in text: s occurs in the text as a run of consecutive characters
Contains(text, s) ==
    \E i \in 1..(Len(text) - Len(s) + 1) : SubSeq(text, i, i + Len(s) - 1) = s

required_sections ==
    << Resource,
       <<"m", "o", "d", "u", "l", "e">>,
       <<"p", "r", "o", "v", "i", "d", "e", "r">>,
       <<"v", "a", "r", "i", "a", "b", "l", "e">>,
       <<"o", "u", "t", "p", "u", "t">> >>

\* validate_terraform_files with the test of the braces written with "and"
validate_terraform_files_and(terraform_content) ==
    LET nobraces == ~Contains(terraform_content, <<"{">>) /\ ~Contains(terraform_content, <<"}">>)
        nosection == ~\E k \in 1..Len(required_sections) :
                         Contains(terraform_content, required_sections[k])
    IN  [is_valid |-> ~nobraces /\ ~nosection,
         errors |-> (IF nobraces THEN <<"no_blocks">> ELSE << >>) \o
                    (IF nosection THEN <<"no_section">> ELSE << >>)]

\* the two checks are made one after the other, each appending its message
validate_terraform_files(terraform_content) ==
    LET nobraces == ~Contains(terraform_content, <<"{">>) \/ ~Contains(terraform_content, <<"}">>)
        nosection == ~\E k \in 1..Len(required_sections) :
                         Contains(terraform_content, required_sections[k])
    IN  [is_valid |-> ~nobraces /\ ~nosection,
         errors |-> (IF nobraces THEN <<"no_blocks">> ELSE << >>) \o
                    (IF nosection THEN <<"no_section">> ELSE << >>)]

----------------------------------------------------------------------------
(* The hosting service as GitLabService.create_merge_request sees it.
   A branch is its name mapped to the files committed on it. *)

GitlabOps == {"projects.get", "branches.get", "branch.delete", "branches.create",
              "files.create", "mergerequests.create"}

SourceBranch(cloud_id, resource_type, resource_name) ==
    <<"feature", cloud_id, resource_type, resource_name>>

FilePath(cloud_id, resource_type, resource_name) ==
    <<cloud_id, resource_type, resource_name, "tf">>

DeleteBranch(branches, name) == [b \in DOMAIN branches \ {name} |-> branches[b]]

CreateBranch(branches, name) == (name :> << >>) @@ branches

CreateFile(branches, name, file) ==
    [branches EXCEPT ![name] = Append(@, file)]

CreateMr(mrs, source_branch, target_branch, title) ==
    Append(mrs, [id |-> Len(mrs) + 1, web_url |-> <<"mr", Len(mrs) + 1>>,
                 source_branch |-> source_branch, target_branch |-> target_branch,
                 title |-> title])

----------------------------------------------------------------------------
(* generate_terraform: the responses *)

\* GateCode with the codes of the validation and token gates exchanged
GateCode_exchanged(gate) ==
    CASE gate = "resource" -> 404
      [] gate = "module_version" -> 400
      [] gate = "template" -> 404
      [] gate = "render" -> 500
      [] gate = "validation" -> 404
      [] gate = "token" -> 400
      [] gate = "project" -> 404
      [] gate = "publish" -> 500
      [] gate = "schema" -> 400
      [] gate = "services" -> 500

\* the status code of the error response each gate returns
GateCode(gate) ==
    CASE gate = "resource" -> 404
      [] gate = "module_version" -> 400
      [] gate = "template" -> 404
      [] gate = "render" -> 500
      [] gate = "validation" -> 400
      [] gate = "token" -> 404
      [] gate = "project" -> 404
      [] gate = "publish" -> 500
      [] gate = "schema" -> 400
      [] gate = "services" -> 500

ErrorResponse(gate) == [code |-> GateCode(gate), error |-> gate, merge_request |-> NoneT]

SuccessResponse(merge_request) == [code |-> 200, error |-> "", merge_request |-> Some(merge_request)]

NoResponse == [code |-> 0, error |-> "", merge_request |-> NoneT]

NoLocals ==
    [resource_data |-> EmptyMap, module_version |-> None, template |-> NoneT,
     terraform_code |-> NoneT, validation |-> NoneT, gitlab_token |-> None,
     project_id |-> None, source_branch |-> << >>, terraform_files |-> << >>,
     files_done |-> 0]

Payloads ==
    [username : Usernames, cloud_id : CloudIds, resource_type : ResourceTypes,
     request_id : RequestIds, valid : {TRUE}]

InvalidPayload ==
    [username |-> "", cloud_id |-> "", resource_type |-> "", request_id |-> 0, valid |-> FALSE]

Event(op, r, out) ==
    [op |-> op, acq |-> r.acq, built |-> r.built, queries |-> r.queries, out |-> out]

GlEvent(op, out) ==
    [op |-> op, acq |-> FALSE, built |-> << >>, queries |-> << >>, out |-> out]

\* resource_data.get('name', f"resource-{request_id}")
ResourceName(resource_data, request_id) ==
    Get(resource_data, "name", "resource-" \o ToString(request_id))

----------------------------------------------------------------------------
(* generate_terraform, one action per call it makes *)

dbVars == <<requests_view, tf_template, ledger, clock>>
cacheVars == <<cache_templates, timer>>
glVars == <<gl_branches, gl_mrs>>

Idle(t) == pc[t] \in {"idle", "done"}

\* the handler returns resp
Finish(t, resp) ==
    /\ pc' = [pc EXCEPT ![t] = "done"]
    /\ response' = [response EXCEPT ![t] = resp]
    /\ failed_ids' = IF resp.code = 200
                     THEN failed_ids \ {req[t].request_id}
                     ELSE failed_ids \cup {req[t].request_id}
    /\ recovered' = IF resp.code = 200 /\ req[t].request_id \in failed_ids
                    THEN recovered \cup {req[t].request_id}
                    ELSE recovered \ {req[t].request_id}

Goto(t, label) ==
    /\ pc' = [pc EXCEPT ![t] = label]
    /\ UNCHANGED <<response, failed_ids, recovered>>

Log(t, ev) == trace' = [trace EXCEPT ![t] = Append(@, ev)]

\* schema.load accepts the payload (lines 38-55)
Accept(t) ==
    /\ Idle(t)
    /\ nreq < (IF threaded THEN Cardinality(Threads) ELSE MaxRequests)
    /\ threaded \/ t = 1
    /\ \E p \in Payloads : req' = [req EXCEPT ![t] = p]
    /\ pc' = [pc EXCEPT ![t] = "services"]
    /\ loc' = [loc EXCEPT ![t] = NoLocals]
    /\ trace' = [trace EXCEPT ![t] = << >>]
    /\ response' = [response EXCEPT ![t] = NoResponse]
    /\ nreq' = nreq + 1
    /\ UNCHANGED <<dbVars, glVars, db_instance, cacheVars, failed_ids, recovered, threaded, result>>

\* schema.load raises ValidationError (lines 41-43)
RejectInvalid(t) ==
    /\ Idle(t)
    /\ nreq < (IF threaded THEN Cardinality(Threads) ELSE MaxRequests)
    /\ threaded \/ t = 1
    /\ req' = [req EXCEPT ![t] = InvalidPayload]
    /\ pc' = [pc EXCEPT ![t] = "done"]
    /\ loc' = [loc EXCEPT ![t] = NoLocals]
    /\ trace' = [trace EXCEPT ![t] = << >>]
    /\ response' = [response EXCEPT ![t] = ErrorResponse("schema")]
    /\ nreq' = nreq + 1
    /\ UNCHANGED <<dbVars, glVars, db_instance, cacheVars, failed_ids, recovered, threaded, result>>

\* OracleDBService(current_app.config): the first construction creates the pool;
\* when create_pool raises, _instance stays set, without a pool (lines 58-61)
InitServices(t) ==
    /\ pc[t] = "services"
    /\ \E created \in BOOLEAN :
         IF db_instance = "none" /\ ~created
         THEN /\ db_instance' = "nopool"
              /\ Finish(t, ErrorResponse("services"))
         ELSE /\ db_instance' = IF db_instance = "none" THEN "ok" ELSE db_instance
              /\ Goto(t, "resource")
    /\ UNCHANGED <<dbVars, glVars, cacheVars, req, loc, trace, nreq, threaded, result>>

\* lines 63-73
GetResourceData(t) ==
    /\ pc[t] = "resource"
    /\ \E fault \in DbFaults \cup {"sg"} :
         LET r == get_resource_data(db_instance, requests_view, req[t].cloud_id,
                                    req[t].resource_type, req[t].request_id, fault)
             module_version == Get(r.ret, "module_version", None)
         IN  /\ Log(t, Event("get_resource_data", r, IF r.acq THEN fault ELSE "none"))
             /\ loc' = [loc EXCEPT ![t].resource_data = r.ret,
                                   ![t].module_version = module_version]
             /\ IF DOMAIN r.ret = {} THEN Finish(t, ErrorResponse("resource"))
                ELSE IF Falsy(module_version) THEN Finish(t, ErrorResponse("module_version"))
                ELSE Goto(t, "template")
    /\ UNCHANGED <<dbVars, glVars, db_instance, cacheVars, req, nreq, threaded, result>>

\* lines 75-80
GetTemplate(t) ==
    /\ pc[t] = "template"
    /\ \E fault \in DbFaults :
         LET r == get_jinja_template(db_instance, cache_templates, timer, tf_template,
                                     req[t].cloud_id, req[t].resource_type,
                                     loc[t].module_version, fault)
         IN  /\ Log(t, Event("get_jinja_template", r, IF r.acq THEN fault ELSE "none"))
             /\ cache_templates' = r.cache
             /\ loc' = [loc EXCEPT ![t].template = r.ret]
             /\ IF ~r.ret.some \/ r.ret.v = << >> THEN Finish(t, ErrorResponse("template"))
                ELSE Goto(t, "render")
    /\ UNCHANGED <<dbVars, glVars, db_instance, timer, req, nreq, threaded, result>>

\* line 83; a ValueError reaches the handler's except clause (lines 142-147)
Render(t) ==
    /\ pc[t] = "render"
    /\ LET code == render_terraform_code(loc[t].template.v, loc[t].resource_data)
       IN  /\ Log(t, GlEvent("render_terraform_code", IF code.some THEN "ok" ELSE "raise"))
           /\ loc' = [loc EXCEPT ![t].terraform_code = code]
           /\ IF ~code.some THEN Finish(t, ErrorResponse("render"))
              ELSE Goto(t, "validate")
    /\ UNCHANGED <<dbVars, glVars, db_instance, cacheVars, req, nreq, threaded, result>>

\* lines 86-93
Validate(t) ==
    /\ pc[t] = "validate"
    /\ LET validation == validate_terraform_files(loc[t].terraform_code.v)
       IN  /\ Log(t, GlEvent("validate_terraform_files", "ok"))
           /\ loc' = [loc EXCEPT ![t].validation = Some(validation)]
           /\ IF ~validation.is_valid THEN Finish(t, ErrorResponse("validation"))
              ELSE Goto(t, "token")
    /\ UNCHANGED <<dbVars, glVars, db_instance, cacheVars, req, nreq, threaded, result>>

\* lines 96-99
GetToken(t) ==
    /\ pc[t] = "token"
    /\ \E fault \in DbFaults :
         LET r == get_user_gitlab_token(db_instance, req[t].username, fault)
         IN  /\ Log(t, Event("get_user_gitlab_token", r, IF r.acq THEN fault ELSE "none"))
             /\ loc' = [loc EXCEPT ![t].gitlab_token = r.ret]
             /\ IF Falsy(r.ret) THEN Finish(t, ErrorResponse("token"))
                ELSE Goto(t, "project")
    /\ UNCHANGED <<dbVars, glVars, db_instance, cacheVars, req, nreq, threaded, result>>

\* lines 102-116: the project id, then the branch and file names, then the
\* call of create_merge_request
GetProjectId(t) ==
    /\ pc[t] = "project"
    /\ \E fault \in DbFaults :
         LET r == get_gitlab_project_id(db_instance, requests_view, req[t].cloud_id,
                                        req[t].resource_type, req[t].request_id, fault)
             resource_name == ResourceName(loc[t].resource_data, req[t].request_id)
             ev == Event("get_gitlab_project_id", r, IF r.acq THEN fault ELSE "none")
         IN  IF Falsy(r.ret)
             THEN /\ Log(t, ev)
                  /\ loc' = [loc EXCEPT ![t].project_id = r.ret]
                  /\ Finish(t, ErrorResponse("project"))
             ELSE /\ trace' = [trace EXCEPT ![t] =
                                 @ \o <<ev, GlEvent("create_merge_request", "call")>>]
                  /\ loc' = [loc EXCEPT
                       ![t].project_id = r.ret,
                       ![t].source_branch =
                           SourceBranch(req[t].cloud_id, req[t].resource_type, resource_name),
                       ![t].terraform_files =
                           << [file_path |-> FilePath(req[t].cloud_id, req[t].resource_type,
                                                      resource_name),
                               content |-> loc[t].terraform_code.v] >>]
                  /\ Goto(t, "gl_project")
    /\ UNCHANGED <<dbVars, glVars, db_instance, cacheVars, req, nreq, threaded, result>>

----------------------------------------------------------------------------
(* GitLabService.create_merge_request, one action per call on the hosting
   service.  An exception is logged and re-raised (lines 90-96) and ends the
   handler in its except clause (terraform_routes lines 142-147). *)

\* the interleavings of two workers are followed on a hosting service that
\* does not fault
LookupFaults == IF threaded THEN {"none"} ELSE {"none", "http", "other"}

GlFaults == IF threaded THEN {FALSE} ELSE BOOLEAN

Raise(t) == Finish(t, ErrorResponse("publish"))

\* line 49: gl.projects.get(project_id)
GlProject(t) ==
    /\ pc[t] = "gl_project"
    /\ \E fault \in GlFaults :
         IF fault \/ loc[t].project_id \notin GitlabProjects
         THEN Log(t, GlEvent("projects.get", "fault")) /\ Raise(t)
         ELSE Log(t, GlEvent("projects.get", "ok")) /\ Goto(t, "gl_lookup")
    /\ UNCHANGED <<dbVars, glVars, db_instance, cacheVars, req, loc, nreq, threaded, result>>

\* lines 53-58: project.branches.get(source_branch).  GitlabGetError is what
\* the client library raises for every failed GET (branch not found, or "http":
\* any other error answer of the service) and is passed over; any other
\* exception ("other": no connection, bad credentials) propagates.
GlLookup(t) ==
    /\ pc[t] = "gl_lookup"
    /\ \E fault \in LookupFaults :
         CASE fault = "other" -> Log(t, GlEvent("branches.get", "fault")) /\ Raise(t)
           [] fault = "http" -> Log(t, GlEvent("branches.get", "fault")) /\ Goto(t, "gl_create")
           [] fault = "none" ->
                IF loc[t].source_branch \in DOMAIN gl_branches
                THEN Log(t, GlEvent("branches.get", "ok")) /\ Goto(t, "gl_delete")
                ELSE Log(t, GlEvent("branches.get", "notfound")) /\ Goto(t, "gl_create")
    /\ UNCHANGED <<dbVars, glVars, db_instance, cacheVars, req, loc, nreq, threaded, result>>

\* line 55: branch.delete()
GlDelete(t) ==
    /\ pc[t] = "gl_delete"
    /\ \E fault \in GlFaults :
         IF fault \/ loc[t].source_branch \notin DOMAIN gl_branches
         THEN /\ Log(t, GlEvent("branch.delete", "fault"))
              /\ Raise(t)
              /\ UNCHANGED gl_branches
         ELSE /\ Log(t, GlEvent("branch.delete", "ok"))
              /\ gl_branches' = DeleteBranch(gl_branches, loc[t].source_branch)
              /\ Goto(t, "gl_create")
    /\ UNCHANGED <<dbVars, gl_mrs, db_instance, cacheVars, req, loc, nreq, threaded, result>>

\* line 61: project.branches.create; the service refuses a name that exists
GlCreate(t) ==
    /\ pc[t] = "gl_create"
    /\ \E fault \in GlFaults :
         IF fault \/ loc[t].source_branch \in DOMAIN gl_branches
         THEN /\ Log(t, GlEvent("branches.create",
                                IF fault THEN "fault" ELSE "exists"))
              /\ Raise(t)
              /\ UNCHANGED gl_branches
         ELSE /\ Log(t, GlEvent("branches.create", "ok"))
              /\ gl_branches' = CreateBranch(gl_branches, loc[t].source_branch)
              /\ Goto(t, IF loc[t].terraform_files = << >> THEN "gl_mr" ELSE "gl_files")
    /\ UNCHANGED <<dbVars, gl_mrs, db_instance, cacheVars, req, loc, nreq, threaded, result>>

\* lines 65-72: one project.files.create per entry of terraform_files
GlFile(t) ==
    /\ pc[t] = "gl_files"
    /\ \E fault \in GlFaults :
         LET i == loc[t].files_done + 1
         IN  IF fault \/ loc[t].source_branch \notin DOMAIN gl_branches
             THEN /\ Log(t, GlEvent("files.create", "fault"))
                  /\ Raise(t)
                  /\ UNCHANGED <<gl_branches, loc>>
             ELSE /\ Log(t, GlEvent("files.create", "ok"))
                  /\ gl_branches' = CreateFile(gl_branches, loc[t].source_branch,
                                               loc[t].terraform_files[i])
                  /\ loc' = [loc EXCEPT ![t].files_done = i]
                  /\ Goto(t, IF i = Len(loc[t].terraform_files) THEN "gl_mr" ELSE "gl_files")
    /\ UNCHANGED <<dbVars, gl_mrs, db_instance, cacheVars, req, nreq, threaded, result>>

\* lines 75-88, then terraform_routes lines 132-140
GlMergeRequest(t) ==
    /\ pc[t] = "gl_mr"
    /\ \E fault \in GlFaults :
         IF fault \/ loc[t].source_branch \notin DOMAIN gl_branches
         THEN /\ Log(t, GlEvent("mergerequests.create", "fault"))
              /\ Raise(t)
              /\ UNCHANGED gl_mrs
         ELSE LET mrs == CreateMr(gl_mrs, loc[t].source_branch, "main", req[t].request_id)
                  merge_request == mrs[Len(mrs)]
              IN  /\ Log(t, GlEvent("mergerequests.create", "ok"))
                  /\ gl_mrs' = mrs
                  /\ Finish(t, SuccessResponse(
                        [merge_request_id |-> merge_request.id,
                         merge_request_url |-> merge_request.web_url,
                         source_branch |-> loc[t].source_branch,
                         target_branch |-> "main"]))
    /\ UNCHANGED <<dbVars, gl_branches, db_instance, cacheVars, req, loc, nreq, threaded, result>>

\* time passes between two steps of the service
Tick ==
    /\ timer < MaxTicks * TimeStep
    /\ timer' = timer + TimeStep
    /\ UNCHANGED <<dbVars, glVars, db_instance, cache_templates, pc, req, loc, trace,
                   response, nreq, failed_ids, recovered, threaded, result>>

----------------------------------------------------------------------------
(* The service handling generation requests one at a time *)

Init ==
    /\ \E row \in RowVariants :
         requests_view = [id \in RequestIds |-> IF id = 1 THEN Some(row) ELSE NoneT]
    /\ tf_template = TemplateTable
    /\ ledger = << >>
    /\ clock = 1
    /\ db_instance = "none"
    /\ cache_templates = << >>
    /\ timer = 0
    /\ gl_branches = << >>
    /\ gl_mrs = << >>
    /\ pc = [t \in Threads |-> "idle"]
    /\ req = [t \in Threads |-> InvalidPayload]
    /\ loc = [t \in Threads |-> NoLocals]
    /\ trace = [t \in Threads |-> << >>]
    /\ response = [t \in Threads |-> NoResponse]
    /\ nreq = 0
    /\ failed_ids = {}
    /\ recovered = {}
    /\ threaded = FALSE
    /\ result = NoneT

Handler(t) ==
    \/ Accept(t)
    \/ RejectInvalid(t)
    \/ InitServices(t)
    \/ GetResourceData(t)
    \/ GetTemplate(t)
    \/ Render(t)
    \/ Validate(t)
    \/ GetToken(t)
    \/ GetProjectId(t)
    \/ GlProject(t)
    \/ GlLookup(t)
    \/ GlDelete(t)
    \/ GlCreate(t)
    \/ GlFile(t)
    \/ GlMergeRequest(t)

Next == (\E t \in Threads : Handler(t)) \/ Tick

Spec == Init /\ [][Next]_vars

----------------------------------------------------------------------------
(* Properties of the orchestrator *)

RowsOf(id) == {i \in 1..Len(ledger) : ledger[i].apex_request_id = id}

\* the attempt of worker t was accepted and has reached its services
Accepted(t) == pc[t] # "idle" /\ req[t].valid

Ended(t) == pc[t] = "done" /\ req[t].valid

OpsOf(t) == [i \in 1..Len(trace[t]) |-> trace[t][i].op]

IsOrchestratorOp(op) == op \notin GitlabOps

\* the calls generate_terraform itself makes, in the order they were made
OrchestratorOps(t) == SelectSeq(OpsOf(t), IsOrchestratorOp)

PublishReturned(t) ==
    \E i \in 1..Len(trace[t]) :
        trace[t][i].op = "mergerequests.create" /\ trace[t][i].out = "ok"

\* the first gate of the sequence that the values at hand do not meet (0: none)
FirstUnmetGate(t) ==
    LET l == loc[t]
    IN  IF DOMAIN l.resource_data = {} THEN 1
        ELSE IF Falsy(Get(l.resource_data, "module_version", None)) THEN 2
        ELSE IF ~l.template.some \/ l.template.v = << >> THEN 3
        ELSE IF ~l.terraform_code.some THEN 4
        ELSE IF ~l.validation.some \/ ~l.validation.v.is_valid THEN 5
        ELSE IF Falsy(l.gitlab_token) THEN 6
        ELSE IF Falsy(l.project_id) THEN 7
        ELSE IF ~PublishReturned(t) THEN 8
        ELSE 0

GateOrder ==
    <<"get_resource_data", "get_jinja_template", "render_terraform_code",
      "validate_terraform_files", "get_user_gitlab_token", "get_gitlab_project_id",
      "create_merge_request">>

\* C1: every accepted request has a STARTED row written for its id before
\* any lookup: once a lookup was made, or the attempt ended, the ledger holds
\* a row for the request id.
C1_StartedBeforeLookup ==
    \A t \in Threads :
        Accepted(t) /\ (Len(trace[t]) > 0 \/ pc[t] = "done")
            => RowsOf(req[t].request_id) # {}

\* C2: when an accepted request has returned its response, the ledger was
\* written with the terminal state of the attempt: a row of the request id
\* with status FAILED or SUCCESS, matching the response.
C2_TerminalWritten ==
    \A t \in Threads :
        Ended(t) =>
            \E i \in RowsOf(req[t].request_id) :
                ledger[i].status = IF response[t].code = 200 THEN "SUCCESS" ELSE "FAILED"

\* C3: the gates are evaluated in the fixed order and the attempt stops at
\* the first unmet gate: the calls made are at every moment a prefix of the
\* gate order, the hosting service is called only once the seven gates before
\* publish are met, and an ended attempt answers with the code of its first
\* unmet gate (404, 400, 404, 500, 400, 404, 404, 500), having made the calls
\* up to that gate and none after it, or with 200 when no gate is unmet.
C3_GateOrder ==
    \A t \in Threads :
        /\ Len(OrchestratorOps(t)) <= Len(GateOrder)
        /\ OrchestratorOps(t) = SubSeq(GateOrder, 1, Len(OrchestratorOps(t)))
        /\ (\E i \in 1..Len(trace[t]) : trace[t][i].op \in GitlabOps)
               => FirstUnmetGate(t) \in {0, 8}
        /\ Ended(t) /\ Len(trace[t]) > 0 =>
               LET g == FirstUnmetGate(t)
               IN  /\ response[t].code =
                         IF g = 0 THEN 200 ELSE <<404, 400, 404, 500, 400, 404, 404, 500>>[g]
                   /\ Len(OrchestratorOps(t)) =
                         IF g = 0 THEN 7 ELSE <<1, 1, 2, 3, 4, 5, 6, 7>>[g]

\* an attempt that passed five gates and stopped at the token gate
C3_Witness ==
    \E t \in Threads :
        /\ Ended(t) /\ FirstUnmetGate(t) = 6 /\ response[t].code = 404
        /\ Len(OrchestratorOps(t)) = 5

\* C4: the success response goes with a SUCCESS row of the request id that
\* carries the URL of the merge request the publish call returned.
C4_SuccessRecorded ==
    \A t \in Threads :
        Ended(t) /\ response[t].code = 200 =>
            \E i \in RowsOf(req[t].request_id) :
                /\ ledger[i].status = "SUCCESS"
                /\ Some(ledger[i].merge_request_url) =
                       Some(response[t].merge_request.v.merge_request_url)

\* C7: after a failed attempt followed by a passing one for the same request
\* id, the ledger holds exactly one row for the id and its status is SUCCESS.
C7_RetryLeavesOneSuccessRow ==
    \A id \in recovered :
        /\ Cardinality(RowsOf(id)) = 1
        /\ \A i \in RowsOf(id) : ledger[i].status = "SUCCESS"

\* C8: an attempt that ended at a failing gate leaves the row of its request
\* id in status FAILED with a message naming the gate, and when the gate is
\* one before publish the hosting service was not called.
C8_FailedRecorded ==
    \A t \in Threads :
        Ended(t) /\ response[t].code # 200 /\ Len(trace[t]) > 0 =>
            /\ \E i \in RowsOf(req[t].request_id) :
                   ledger[i].status = "FAILED" /\ ledger[i].message = response[t].error
            /\ FirstUnmetGate(t) # 8 =>
                   \A i \in 1..Len(trace[t]) : trace[t][i].op \notin GitlabOps

\* C9: a fault of the hosting service at any step of the publication
\* propagates: the faulty call is the last call of the attempt, and the
\* attempt has ended with 500.
C9_FaultPropagates ==
    \A t \in Threads :
        \A i \in 1..Len(trace[t]) :
            trace[t][i].op \in GitlabOps /\ trace[t][i].out = "fault"
                => i = Len(trace[t]) /\ pc[t] = "done" /\ response[t].code = 500

----------------------------------------------------------------------------
(* The status ledger called directly: any caller, any arguments *)

\* the workers at rest, nothing cached, an empty hosting service
AtRest ==
    /\ tf_template = TemplateTable
    /\ cache_templates = << >>
    /\ timer = 0
    /\ gl_branches = << >>
    /\ gl_mrs = << >>
    /\ pc = [t \in Threads |-> "idle"]
    /\ req = [t \in Threads |-> InvalidPayload]
    /\ loc = [t \in Threads |-> NoLocals]
    /\ trace = [t \in Threads |-> << >>]
    /\ response = [t \in Threads |-> NoResponse]
    /\ nreq = 0
    /\ failed_ids = {}
    /\ recovered = {}
    /\ threaded = FALSE
    /\ result = NoneT

Callers ==
    { [username |-> "alice", cloud_id |-> "aws", resource_type |-> "rds"],
      [username |-> "bob", cloud_id |-> "alicloud", resource_type |-> "ec2"] }

Outcomes ==
    { [status |-> "STARTED", message |-> "started", merge_request_url |-> None],
      [status |-> "FAILED", message |-> "template", merge_request_url |-> None],
      [status |-> "SUCCESS", message |-> "ok", merge_request_url |-> "mr1"] }

\* where a call of save_generation_status can fault: pool.acquire(),
\* cursor.execute() or connection.commit()
LedgerFaults == {"none", "acquire", "execute", "commit"}

InitLedger ==
    /\ AtRest
    /\ requests_view = [id \in RequestIds |-> IF id = 1 THEN Some(BaseRow) ELSE NoneT]
    /\ ledger = << >>
    /\ clock = 1
    /\ db_instance \in {"ok", "nopool"}

\* db_service lines 117-136
SaveGenerationStatus ==
    /\ clock <= MaxSaves
    /\ \E id \in RequestIds, c \in Callers, o \in Outcomes, fault \in LedgerFaults :
         /\ ledger' = save_generation_status(db_instance, ledger, clock, id, c.username,
                         c.cloud_id, c.resource_type, o.status, o.message,
                         o.merge_request_url, fault)
         /\ result' = Some([fn |-> "save_generation_status", apex_request_id |-> id,
                            username |-> c.username, cloud_id |-> c.cloud_id,
                            resource_type |-> c.resource_type, status |-> o.status,
                            message |-> o.message,
                            merge_request_url |-> o.merge_request_url,
                            faulted |-> (fault # "none" \/ db_instance = "nopool"),
                            matched |-> Matched(ledger, id), rows_before |-> Len(ledger)])
    /\ clock' = clock + 1
    /\ UNCHANGED <<requests_view, tf_template, db_instance, cacheVars, glVars, pc, req,
                   loc, trace, response, nreq, failed_ids, recovered, threaded>>

SpecLedger == InitLedger /\ [][SaveGenerationStatus]_vars

\* C6: the ledger holds at most one row for each apex_request_id, and a
\* write that went through for an id without a row added one row, for that
\* id, while a write for an id with a row, or a write cut short by a store
\* fault, left the number of rows as it was.
C6_OneRowPerId ==
    /\ \A i, j \in 1..Len(ledger) :
           ledger[i].apex_request_id = ledger[j].apex_request_id => i = j
    /\ result.some =>
           IF result.v.faulted \/ result.v.matched
           THEN Len(ledger) = result.v.rows_before
           ELSE /\ Len(ledger) = result.v.rows_before + 1
                /\ ledger[Len(ledger)].apex_request_id = result.v.apex_request_id

\* two ids have a row, and the last write updated the row of its id
C6_Witness ==
    /\ Len(ledger) = 2
    /\ result.some /\ result.v.matched /\ ~result.v.faulted
    /\ \E i \in 1..Len(ledger) :
           ledger[i].apex_request_id = result.v.apex_request_id /\ ledger[i].finished_at # 0

----------------------------------------------------------------------------
(* Resource Lookup called directly: OracleDBService.get_resource_data and
   OracleDBClient.fetch_request_data of ssp_api_new *)

Min(a, b) == IF a <= b THEN a ELSE b

MainColumns == <<"id", "name", "module_version", "gitlab_project_id">>
SgColumns == <<"request_id", "from_port">>

\* the values of a row, in the order of the view's columns
RowValues(row) ==
    LET InRow(c) == c \in DOMAIN row
        cols == SelectSeq(MainColumns, InRow)
    IN  [i \in 1..Len(cols) |-> row[cols[i]]]

\* dict(zip(keys, values))
DictZip(keys, values) ==
    LET n == Min(Len(keys), Len(values))
    IN  [k \in {keys[i] : i \in 1..n} |->
            values[CHOOSE i \in 1..n : keys[i] = k /\ \A j \in (i + 1)..n : keys[j] # k]]

valid_clouds == {"aws", "alicloud", "gcp"}

FetchFaults == {"none", "acquire", "execute", "sg", "description"}

FetchRaised(kind, acq, built, queries) ==
    [raised |-> kind, ret |-> NoneT, acq |-> acq, built |-> built, queries |-> queries]

\* oracle_client lines 33-67.  @logger.catch logs whatever the body raises and
\* returns None in its place.  cursor.description is read after the second
\* execute and after the connection was released: it holds the columns of
\* the sg view, or the read itself fails (fault "description").
fetch_request_data(view, cloud_id, resource_type, request_id, fault) ==
    LET main_view == ViewName(cloud_id, resource_type)
        sg_view == SgViewName(cloud_id, resource_type)
        main_data == SelectRow(view, main_view, request_id)
        sg_rules == SgIngress(request_id)
    IN  IF cloud_id \notin valid_clouds THEN FetchRaised("ValueError", FALSE, << >>, << >>)
        ELSE IF fault = "acquire"
        THEN FetchRaised("DatabaseError", TRUE, <<main_view, sg_view>>, << >>)
        ELSE IF fault = "execute" \/ ~ViewExists(main_view)
        THEN FetchRaised("DatabaseError", TRUE, <<main_view, sg_view>>, <<main_view>>)
        ELSE IF fault = "sg"
        THEN FetchRaised("DatabaseError", TRUE, <<main_view, sg_view>>, <<main_view, sg_view>>)
        ELSE IF fault = "description"
        THEN FetchRaised("InterfaceError", TRUE, <<main_view, sg_view>>, <<main_view, sg_view>>)
        ELSE IF ~main_data.some
        THEN FetchRaised("TypeError", TRUE, <<main_view, sg_view>>, <<main_view, sg_view>>)
        ELSE [raised |-> "",
              ret |-> Some([main |-> DictZip(SgColumns, RowValues(main_data.v)),
                            sg_rules |-> sg_rules]),
              acq |-> TRUE, built |-> <<main_view, sg_view>>,
              queries |-> <<main_view, sg_view>>]

LookupClouds == {"aws", "gcp", "azure", "alicloud", "x;--"}
LookupTypes == {"rds", "ec2"}

InitLookup ==
    /\ AtRest
    /\ \E row \in RowVariants :
         requests_view = [id \in RequestIds |-> IF id = 1 THEN Some(row) ELSE NoneT]
    /\ ledger = << >>
    /\ clock = 1
    /\ db_instance \in {"ok", "nopool"}

LookupCall(fn, cloud_id, resource_type, request_id, r) ==
    Some([fn |-> fn, cloud_id |-> cloud_id, resource_type |-> resource_type,
          request_id |-> request_id, fault |-> r.fault, raised |-> r.raised,
          ret |-> r.ret, acq |-> r.acq, built |-> r.built, queries |-> r.queries])

CallGetResourceData ==
    /\ \E c \in LookupClouds, ty \in LookupTypes, id \in RequestIds, fault \in DbFaults \cup {"sg"} :
         LET r == get_resource_data(db_instance, requests_view, c, ty, id, fault)
         IN  result' = LookupCall("get_resource_data", c, ty, id,
                                  [fault |-> fault, raised |-> "", ret |-> Some(r.ret),
                                   acq |-> r.acq, built |-> r.built, queries |-> r.queries])
    /\ UNCHANGED <<dbVars, glVars, db_instance, cacheVars, pc, req, loc, trace,
                   response, nreq, failed_ids, recovered, threaded>>

CallFetchRequestData ==
    /\ \E c \in LookupClouds, ty \in LookupTypes, id \in RequestIds, fault \in FetchFaults :
         result' = LookupCall("fetch_request_data", c, ty, id,
                              [fault |-> fault] @@
                              fetch_request_data(requests_view, c, ty, id, fault))
    /\ UNCHANGED <<dbVars, glVars, db_instance, cacheVars, pc, req, loc, trace,
                   response, nreq, failed_ids, recovered, threaded>>

SpecLookup == InitLookup /\ [][CallGetResourceData \/ CallFetchRequestData]_vars

\* the call result is of a lookup whose cloud_id is outside the allow-list
\* written in the function called
Rejected ==
    /\ result.some
    /\ \/ result.v.fn = "get_resource_data" /\ result.v.cloud_id \notin {"aws", "gcp", "azure"}
       \/ result.v.fn = "fetch_request_data" /\ result.v.cloud_id \notin {"aws", "alicloud", "gcp"}

NoStoreContact ==
    ~result.v.acq /\ result.v.queries = << >> /\ result.v.built = << >>

\* C5 as stated: for a cloud_id outside the allow-list both lookups return
\* the empty mapping, with no connection acquired, no query issued and no
\* view name built.
C5_RejectedReturnsEmpty ==
    Rejected =>
        /\ result.v.raised = "" /\ result.v.ret.some /\ DOMAIN result.v.ret.v = {}
        /\ NoStoreContact

\* C5 amended: for a cloud_id outside the allow-list neither lookup acquires
\* a connection, issues a query or builds a view name; get_resource_data
\* returns the empty mapping, and fetch_request_data raises ValueError, which
\* its logging decorator turns into the return value None.
C5_RejectedFailsClosed ==
    Rejected =>
        /\ NoStoreContact
        /\ result.v.fn = "get_resource_data" =>
               result.v.raised = "" /\ result.v.ret.some /\ DOMAIN result.v.ret.v = {}
        /\ result.v.fn = "fetch_request_data" =>
               result.v.raised = "ValueError" /\ ~result.v.ret.some

\* get_resource_data was called with the cloud the other lookup allows
C5_Witness ==
    /\ Rejected
    /\ result.v.fn = "get_resource_data" /\ result.v.cloud_id = "alicloud"
    /\ result.v.request_id = 1 /\ result.v.resource_type = "rds"

----------------------------------------------------------------------------
(* GitLabClient.create_merge_request of ssp_api_new (gitlab/client.py lines
   9-43), called directly, one action per call on the hosting service.
   A GitlabError is logged and re-raised; @logger.catch then logs it again
   and the caller gets None. *)

ClientFiles ==
    { << [file_path |-> "main.tf", content |-> Resource] >>,
      << [file_path |-> "main.tf", content |-> Resource],
         [file_path |-> "variables.tf", content |-> <<"variable">>] >> }

\* routes.py line 29: f"terraform-{data['request_id']}"
ClientBranch(request_id) == "terraform-" \o ToString(request_id)

ClientReturn(t, ret) ==
    /\ pc' = [pc EXCEPT ![t] = "done"]
    /\ result' = Some([fn |-> "GitLabClient.create_merge_request", ret |-> ret])
    /\ UNCHANGED <<response, failed_ids, recovered>>

ClientGoto(t, label) ==
    /\ pc' = [pc EXCEPT ![t] = label]
    /\ UNCHANGED <<response, failed_ids, recovered, result>>

ClientCall(t) ==
    /\ Idle(t)
    /\ nreq < MaxRequests
    /\ threaded \/ t = 1
    /\ \E id \in RequestIds, files \in ClientFiles :
         loc' = [loc EXCEPT ![t] = [NoLocals EXCEPT !.project_id = "p7",
                                                    !.gitlab_token = "tok_alice",
                                                    !.source_branch = ClientBranch(id),
                                                    !.terraform_files = files]]
    /\ pc' = [pc EXCEPT ![t] = "cl_project"]
    /\ trace' = [trace EXCEPT ![t] = << >>]
    /\ nreq' = nreq + 1
    /\ result' = NoneT
    /\ UNCHANGED <<dbVars, glVars, db_instance, cacheVars, req, response, failed_ids,
                   recovered, threaded>>

\* line 14
ClientProject(t) ==
    /\ pc[t] = "cl_project"
    /\ \E fault \in BOOLEAN :
         IF fault \/ loc[t].project_id \notin GitlabProjects
         THEN Log(t, GlEvent("projects.get", "fault")) /\ ClientReturn(t, NoneT)
         ELSE Log(t, GlEvent("projects.get", "ok")) /\ ClientGoto(t, "cl_branch")
    /\ UNCHANGED <<dbVars, glVars, db_instance, cacheVars, req, loc, nreq, threaded>>

\* lines 15-18: the branch is created without looking for an existing one
ClientBranchCreate(t) ==
    /\ pc[t] = "cl_branch"
    /\ \E fault \in BOOLEAN :
         IF fault \/ loc[t].source_branch \in DOMAIN gl_branches
         THEN /\ Log(t, GlEvent("branches.create", IF fault THEN "fault" ELSE "exists"))
              /\ ClientReturn(t, NoneT)
              /\ UNCHANGED gl_branches
         ELSE /\ Log(t, GlEvent("branches.create", "ok"))
              /\ gl_branches' = CreateBranch(gl_branches, loc[t].source_branch)
              /\ ClientGoto(t, "cl_commit")
    /\ UNCHANGED <<dbVars, gl_mrs, db_instance, cacheVars, req, loc, nreq, threaded>>

\* lines 20-30: one commit that creates every file
ClientCommit(t) ==
    /\ pc[t] = "cl_commit"
    /\ \E fault \in BOOLEAN :
         IF fault \/ loc[t].source_branch \notin DOMAIN gl_branches
         THEN /\ Log(t, GlEvent("commits.create", "fault"))
              /\ ClientReturn(t, NoneT)
              /\ UNCHANGED gl_branches
         ELSE /\ Log(t, GlEvent("commits.create", "ok"))
              /\ gl_branches' = [gl_branches EXCEPT ![loc[t].source_branch] =
                                    @ \o loc[t].terraform_files]
              /\ ClientGoto(t, "cl_mr")
    /\ UNCHANGED <<dbVars, gl_mrs, db_instance, cacheVars, req, loc, nreq, threaded>>

\* lines 32-39
ClientMergeRequest(t) ==
    /\ pc[t] = "cl_mr"
    /\ \E fault \in BOOLEAN :
         IF fault \/ loc[t].source_branch \notin DOMAIN gl_branches
         THEN /\ Log(t, GlEvent("mergerequests.create", "fault"))
              /\ ClientReturn(t, NoneT)
              /\ UNCHANGED gl_mrs
         ELSE LET mrs == CreateMr(gl_mrs, loc[t].source_branch, "main", 0)
              IN  /\ Log(t, GlEvent("mergerequests.create", "ok"))
                  /\ gl_mrs' = mrs
                  /\ ClientReturn(t, Some(mrs[Len(mrs)].web_url))
    /\ UNCHANGED <<dbVars, gl_branches, db_instance, cacheVars, req, loc, nreq, threaded>>

InitClient ==
    /\ AtRest
    /\ requests_view = [id \in RequestIds |-> IF id = 1 THEN Some(BaseRow) ELSE NoneT]
    /\ ledger = << >>
    /\ clock = 1
    /\ db_instance = "ok"

NextClient ==
    \E t \in Threads :
        \/ ClientCall(t)
        \/ ClientProject(t)
        \/ ClientBranchCreate(t)
        \/ ClientCommit(t)
        \/ ClientMergeRequest(t)

SpecClient == InitClient /\ [][NextClient]_vars

\* C10: a publish call succeeds whether or not its source branch exists when
\* it starts: no branch creation is refused because the name exists, and a
\* call in which the hosting service did not fault returns a merge request.
C10_NoCollision ==
    \A t \in Threads :
        /\ \A i \in 1..Len(trace[t]) :
               trace[t][i].op = "branches.create" => trace[t][i].out # "exists"
        /\ (/\ pc[t] = "done"
            /\ result.some
            /\ \A i \in 1..Len(trace[t]) : trace[t][i].out # "fault")
               => result.v.ret.some

----------------------------------------------------------------------------
(* The Template Store called directly: get_jinja_template at any time, for
   any key, while time passes and the stored templates change.  The log of
   the calls is kept in trace[1]. *)

\* module versions nobody stored a template for
WarmVersion(i) == "w" \o ToString(i)

CacheKey(module_version) == <<"aws", "rds", module_version>>

\* the template the store holds for a key at this moment
Stored(table, key) == IF key \in DOMAIN table THEN Some(table[key]) ELSE NoneT

\* what a caller of get_jinja_template sees and what the store saw of the call:
\* hit tells that the function under the decorator was not called
CacheEvent(module_version, now, hit, r, fault, stored) ==
    [op |-> "get_jinja_template", key |-> CacheKey(module_version), time |-> now,
     hit |-> hit, ret |-> r.ret, acq |-> r.acq, queries |-> r.queries,
     out |-> IF r.acq THEN fault ELSE "none", stored |-> stored]

\* the call get_jinja_template("aws", "rds", module_version) made at time now
CacheCall(db, cache, now, table, module_version, fault) ==
    LET r == get_jinja_template(db, cache, now, table, "aws", "rds", module_version, fault)
        hit == getitem(cache, CacheKey(module_version), now).found
    IN  [cache |-> r.cache,
         event |-> CacheEvent(module_version, now, hit, r, fault,
                              Stored(table, CacheKey(module_version)))]

\* the cache and the log after the calls for versions w1 .. wn, made in this
\* order at time 0 on an empty cache: each call missed, found no template
\* stored and left None in the cache
WarmCache(n) == [i \in 1..n |-> Entry(CacheKey(WarmVersion(i)), NoneT, 0 + ttl)]

WarmLog(n) ==
    [i \in 1..n |->
        CacheEvent(WarmVersion(i), 0, FALSE,
                   query_jinja_template("ok", TemplateTable, "aws", "rds", WarmVersion(i), "none"),
                   "none", NoneT)]

\* the versions asked for: one with a stored template, one without, and the
\* one whose entry is the least recently used of a warm cache
CacheVersions == {"1.0", "2.0", "w1"}

CacheFaults == {"none", "execute"}

InitCache ==
    /\ requests_view = [id \in RequestIds |-> IF id = 1 THEN Some(BaseRow) ELSE NoneT]
    /\ tf_template = TemplateTable
    /\ ledger = << >>
    /\ clock = 1
    /\ db_instance = "ok"
    /\ \E n \in {0, maxsize - 1} :
         /\ cache_templates = WarmCache(n)
         /\ trace = [t \in Threads |-> IF t = 1 THEN WarmLog(n) ELSE << >>]
    /\ timer = 0
    /\ gl_branches = << >>
    /\ gl_mrs = << >>
    /\ pc = [t \in Threads |-> "idle"]
    /\ req = [t \in Threads |-> InvalidPayload]
    /\ loc = [t \in Threads |-> NoLocals]
    /\ response = [t \in Threads |-> NoResponse]
    /\ nreq = 0
    /\ failed_ids = {}
    /\ recovered = {}
    /\ threaded = FALSE
    /\ result = NoneT

\* db_service lines 75-92
CallGetJinjaTemplate ==
    /\ nreq < MaxRequests
    /\ \E module_version \in CacheVersions, fault \in CacheFaults :
         LET c == CacheCall(db_instance, cache_templates, timer, tf_template,
                            module_version, fault)
         IN  /\ cache_templates' = c.cache
             /\ trace' = [trace EXCEPT ![1] = Append(@, c.event)]
             /\ result' = Some(c.event)
    /\ nreq' = nreq + 1
    /\ UNCHANGED <<dbVars, glVars, db_instance, timer, pc, req, loc, response,
                   failed_ids, recovered, threaded>>

\* the upstream process replaces the template stored for version 1.0
UpdateTemplate ==
    /\ tf_template[CacheKey("1.0")] = T_ok
    /\ tf_template' = [tf_template EXCEPT ![CacheKey("1.0")] = T_nobrace]
    /\ UNCHANGED <<requests_view, ledger, clock, glVars, db_instance, cacheVars, pc, req,
                   loc, trace, response, nreq, failed_ids, recovered, threaded, result>>

SpecCache == InitCache /\ [][CallGetJinjaTemplate \/ UpdateTemplate \/ Tick]_vars

Max(S) == CHOOSE x \in S : \A y \in S : y <= x

\* the calls before call j that had the function under the decorator fetch
\* the value of the same key
FetchesBefore(log, j) == {i \in 1..(j - 1) : log[i].key = log[j].key /\ ~log[i].hit}

UsesBefore(log, j) == {i \in 1..(j - 1) : log[i].key = log[j].key}

\* the other keys asked for between the last use of the key of call j and call j
KeysSinceLastUse(log, j) ==
    {log[m].key : m \in (Max(UsesBefore(log, j)) + 1)..(j - 1)}

\* what a call that reaches the store returns: the stored template, or None
\* when there is no pool or the store faults
FetchedFromStore(e) ==
    IF db_instance = "ok" /\ e.out = "none"
    THEN e.queries = <<"tf_template">> /\ e.ret = e.stored
    ELSE ~e.ret.some

\* the calls of the log that a state has to answer for: the latest one (every
\* call is the latest one in the state it leads to)
Latest(log) == {Len(log)} \ {0}

\* C11 as stated: two calls with the same key less than 600 seconds apart
\* return the same text and the second one issues no query; a call made after
\* the 600 seconds of the entry have passed queries the store and returns the
\* value the store holds.
C11_SameWithinTtlOfCall ==
    LET log == trace[1]
    IN  \A j \in Latest(log) :
            /\ \A i \in UsesBefore(log, j) :
                   log[j].time - log[i].time < ttl =>
                       log[j].ret = log[i].ret /\ log[j].queries = << >> /\ ~log[j].acq
            /\ (FetchesBefore(log, j) # {}
                    /\ log[j].time >= log[Max(FetchesBefore(log, j))].time + ttl)
                   => log[j].queries = <<"tf_template">> /\ log[j].ret = log[j].stored

\* C11 amended: the 600 seconds run from the call that fetched the entry, not
\* from the last call.  A call made less than 600 seconds after the last fetch
\* of its key, with fewer than 100 other keys asked for since the key was last
\* used, returns what that fetch returned and reaches neither the pool nor
\* the store, whatever the store holds by then.  A call for a key never
\* fetched, or made 600 seconds or more after the last fetch of its key, runs
\* the function again: it returns the template the store holds at that
\* moment, or None when the store faults.
C11_SameWithinTtlOfFetch ==
    LET log == trace[1]
    IN  \A j \in Latest(log) :
            LET F == FetchesBefore(log, j)
            IN  IF F = {} \/ log[j].time >= log[Max(F)].time + ttl
                THEN ~log[j].hit /\ FetchedFromStore(log[j])
                ELSE Cardinality(KeysSinceLastUse(log, j)) < maxsize =>
                         /\ log[j].hit
                         /\ log[j].ret = log[Max(F)].ret
                         /\ log[j].queries = << >> /\ ~log[j].acq

\* version 1.0 was fetched, its stored template was replaced, a call less than
\* 600 seconds after the fetch returned the text fetched, and a later call,
\* less than 600 seconds after that one, fetched the new text
C11_Witness ==
    LET log == trace[1]
        Calls == {i \in 1..Len(log) : log[i].key = CacheKey("1.0")}
    IN  \E i, j, k \in Calls :
            /\ i < j /\ j < k
            /\ ~log[i].hit /\ log[j].hit /\ ~log[k].hit
            /\ log[j].ret = log[i].ret /\ log[j].stored # log[i].stored
            /\ log[k].time - log[j].time < ttl
            /\ log[k].ret = log[k].stored /\ log[k].ret # log[j].ret

\* the entries of a cache that have not expired at time now
Unexpired(cache, now) == {i \in 1..Len(cache) : now < cache[i].expires}

\* the position in the log of the latest call for a key
LastUse(log, key) == Max({i \in 1..Len(log) : log[i].key = key})

KeysOf(cache) == {cache[i].key : i \in 1..Len(cache)}

\* the entries of the cache before a step whose key the cache after the step
\* does not hold
Removed(before, after) ==
    LET kept == KeysOf(after)
    IN  {i \in 1..Len(before) : before[i].key \notin kept}

\* C12: the cache never holds more than 100 entries; a step removes an entry
\* only when its 600 seconds have passed or when a miss adds a key to a cache
\* of 100 unexpired entries, and then the one entry removed is the one whose
\* key was asked for the longest time ago.
C12_BoundedLru ==
    /\ [](Len(cache_templates) <= maxsize)
    /\ [][LET removed == Removed(cache_templates, cache_templates')
              evicted == {i \in removed : timer < cache_templates[i].expires}
          IN  \A i \in evicted :
                  /\ evicted = {i}
                  /\ Cardinality(Unexpired(cache_templates, timer)) = maxsize
                  /\ Len(cache_templates') = maxsize
                  /\ \A j \in Unexpired(cache_templates, timer) :
                         LastUse(trace[1], cache_templates[i].key)
                             <= LastUse(trace[1], cache_templates[j].key)]_vars

\* a warm cache was filled up by a miss after its oldest entry had been used
\* again, and the next miss evicted the second oldest entry
C12_Witness ==
    /\ Len(cache_templates) = maxsize
    /\ timer < ttl
    /\ HasKey(cache_templates, CacheKey(WarmVersion(1)))
    /\ ~HasKey(cache_templates, CacheKey(WarmVersion(2)))
    /\ HasKey(cache_templates, CacheKey("1.0"))
    /\ HasKey(cache_templates, CacheKey("2.0"))

----------------------------------------------------------------------------
(* The lookups of the Template Store and of the credential store, as the
   orchestrator sees them (specification Spec) *)

\* the gate each lookup feeds, and the local variable that takes its result
LookupGate ==
    [get_jinja_template |-> "template", get_user_gitlab_token |-> "token",
     get_gitlab_project_id |-> "project"]

LookupGaveNone(t, op) ==
    CASE op = "get_jinja_template" -> ~loc[t].template.some
      [] op = "get_user_gitlab_token" -> loc[t].gitlab_token = None
      [] op = "get_gitlab_project_id" -> loc[t].project_id = None

\* the lookup found no row, or a row without the value
NoRowFor(t, op) ==
    CASE op = "get_jinja_template" ->
             /\ <<req[t].cloud_id, req[t].resource_type, loc[t].module_version>>
                    \notin DOMAIN tf_template
      [] op = "get_user_gitlab_token" -> req[t].username \notin DOMAIN UsersTable
      [] op = "get_gitlab_project_id" ->
             \/ ~requests_view[req[t].request_id].some
             \/ requests_view[req[t].request_id].v.gitlab_project_id = None

\* C13: a call of get_jinja_template, get_user_gitlab_token or
\* get_gitlab_project_id in which acquiring the connection or running the
\* query faulted, or that found no row, gave None to the orchestrator, which
\* ended the attempt right there with the 404 of the gate the lookup feeds:
\* no later call was made and the response is not the 500 of an exception.
C13_LookupFaultIsNotFound ==
    \A t \in Threads :
        \A i \in 1..Len(trace[t]) :
            LET e == trace[t][i]
            IN  (e.op \in DOMAIN LookupGate /\ (e.out # "none" \/ NoRowFor(t, e.op))) =>
                    /\ i = Len(trace[t])
                    /\ LookupGaveNone(t, e.op)
                    /\ pc[t] = "done"
                    /\ response[t].code = 404
                    /\ response[t].error = LookupGate[e.op]

\* the query of the token lookup faulted for a user who has a token
C13_Witness ==
    \E t \in Threads :
        /\ Len(trace[t]) > 0
        /\ trace[t][Len(trace[t])].op = "get_user_gitlab_token"
        /\ trace[t][Len(trace[t])].out = "execute"
        /\ req[t].username \in DOMAIN UsersTable
        /\ response[t].code = 404

\* C14: for an allow-listed cloud, an attempt whose Resource Lookup could not
\* reach the store, or whose primary query failed, ends with the 500 of an
\* upstream fault, and an attempt whose query ran and found no row ends with
\* the 404 of the resource gate.
C14_FaultDistinguished ==
    \A t \in Threads :
        (/\ Ended(t)
         /\ Len(trace[t]) = 1
         /\ trace[t][1].op = "get_resource_data"
         /\ req[t].cloud_id \in {"aws", "gcp", "azure"}) =>
            /\ trace[t][1].out \in {"acquire", "execute"} => response[t].code = 500
            /\ (trace[t][1].out = "none" /\ ~requests_view[req[t].request_id].some)
                   => response[t].code = 404

----------------------------------------------------------------------------
(* Resource Lookup and its security group rules (specification SpecLookup) *)

\* the last call was get_resource_data and it returned a non-empty mapping
ReturnedRow == result.some /\ result.v.fn = "get_resource_data" /\ DOMAIN result.v.ret.v # {}

\* the positions of the stored rules of a request id
RulesOf(request_id) ==
    {k \in 1..Len(SgIngressRows) : SgIngressRows[k].request_id = request_id}

\* C15: a non-empty mapping returned by get_resource_data holds the columns
\* of the primary row and the key sg_rules, a list of rules that all belong to
\* the request id asked for; without a fault the list holds every stored rule
\* of that id, in the order of the store; when the secondary query faults the
\* primary row is returned all the same, with the empty list.
C15_SgRulesAlwaysPresent ==
    /\ ReturnedRow =>
           LET ret == result.v.ret.v
               row == requests_view[result.v.request_id].v
           IN  /\ "sg_rules" \in DOMAIN ret
               /\ \A c \in DOMAIN row : ret[c] = row[c]
               /\ \A k \in 1..Len(ret.sg_rules) :
                      ret.sg_rules[k].request_id = result.v.request_id
               /\ result.v.fault = "sg" => ret.sg_rules = << >>
               /\ result.v.fault = "none" =>
                      /\ Len(ret.sg_rules) = Cardinality(RulesOf(result.v.request_id))
                      /\ \A k \in 1..Len(ret.sg_rules) :
                             \E m \in RulesOf(result.v.request_id) :
                                 /\ ret.sg_rules[k] = SgIngressRows[m]
                                 /\ Cardinality({n \in RulesOf(result.v.request_id) : n < m}) = k - 1
    /\ (/\ result.some
        /\ result.v.fn = "get_resource_data"
        /\ result.v.fault = "sg"
        /\ db_instance = "ok"
        /\ result.v.cloud_id = "aws" /\ result.v.resource_type = "rds"
        /\ requests_view[result.v.request_id].some) => ReturnedRow

\* the secondary query faulted and the primary row came back with no rules
C15_Witness ==
    /\ ReturnedRow
    /\ result.v.fault = "sg"
    /\ result.v.ret.v.sg_rules = << >>
    /\ result.v.ret.v.id = result.v.request_id

----------------------------------------------------------------------------
(* The writes of the status ledger (specification SpecLedger) *)

\* the step is a call of save_generation_status
Saved == result'.some /\ result'.v.fn = "save_generation_status" /\ clock' # clock

C17_UpsertFrame ==
    [][(Saved /\ ~result'.v.faulted) =>
          LET a == result'.v
              now == clock
          IN  IF \A i \in 1..Len(ledger) : ledger[i].apex_request_id # a.apex_request_id
              THEN /\ Len(ledger') = Len(ledger) + 1
                   /\ \A i \in 1..Len(ledger) : ledger'[i] = ledger[i]
                   /\ ledger'[Len(ledger')] =
                          [apex_request_id |-> a.apex_request_id, username |-> a.username,
                           cloud_id |-> a.cloud_id, resource_type |-> a.resource_type,
                           status |-> a.status, message |-> a.message,
                           started_at |-> now, finished_at |-> 0,
                           merge_request_url |-> a.merge_request_url]
                   /\ now # 0
              ELSE /\ Len(ledger') = Len(ledger)
                   /\ \A i \in 1..Len(ledger) :
                          IF ledger[i].apex_request_id = a.apex_request_id
                          THEN /\ ledger'[i].status = a.status
                               /\ ledger'[i].message = a.message
                               /\ ledger'[i].merge_request_url = a.merge_request_url
                               /\ ledger'[i].finished_at = now /\ now # 0
                               /\ ledger'[i].apex_request_id = ledger[i].apex_request_id
                               /\ ledger'[i].username = ledger[i].username
                               /\ ledger'[i].cloud_id = ledger[i].cloud_id
                               /\ ledger'[i].resource_type = ledger[i].resource_type
                               /\ ledger'[i].started_at = ledger[i].started_at
                          ELSE ledger'[i] = ledger[i]]_vars

\* the row of an id was updated by a caller other than the one that inserted
\* it, next to the row of another id
C17_Witness ==
    /\ result.some /\ ~result.v.faulted /\ result.v.matched
    /\ Len(ledger) = 2
    /\ \E i \in 1..Len(ledger) :
           /\ ledger[i].apex_request_id = result.v.apex_request_id
           /\ ledger[i].username # result.v.username
           /\ ledger[i].status = result.v.status
           /\ ledger[i].finished_at # 0

----------------------------------------------------------------------------
(* The status history read directly: get_user_status_history for any user,
   on ledgers of 0 to MaxRows rows *)

\* the i-th row of a ledger written by n first calls of save_generation_status,
\* two users taking turns; the table keeps its rows in no order of time
HistoryRow(i) ==
    [apex_request_id |-> i,
     username |-> IF i % 3 = 0 THEN "bob" ELSE "alice",
     cloud_id |-> "aws", resource_type |-> "rds",
     status |-> "STARTED", message |-> "started",
     started_at |-> 1 + (((i * 5) % 37) \div 2),
     finished_at |-> 0, merge_request_url |-> None]

HistoryLedger(n) == [i \in 1..n |-> HistoryRow(i)]

HistoryUsers == {"alice", "bob", "carol"}

InitHistory ==
    /\ AtRest
    /\ requests_view = [id \in RequestIds |-> IF id = 1 THEN Some(BaseRow) ELSE NoneT]
    /\ \E n \in 0..MaxRows : ledger = HistoryLedger(n)
    /\ clock = 20
    /\ db_instance \in {"ok", "nopool"}

\* db_service lines 138-148
CallGetUserStatusHistory ==
    /\ \E username \in HistoryUsers, fault \in DbFaults, tie \in BOOLEAN :
         result' = Some([fn |-> "get_user_status_history", username |-> username,
                         faulted |-> (fault # "none" \/ db_instance = "nopool"),
                         ret |-> get_user_status_history(db_instance, ledger, username,
                                                         fault, tie)])
    /\ UNCHANGED <<dbVars, glVars, db_instance, cacheVars, pc, req, loc, trace,
                   response, nreq, failed_ids, recovered, threaded>>

SpecHistory == InitHistory /\ [][CallGetUserStatusHistory]_vars

\* the rows the ledger holds for a user
RowsOfUser(username) == {i \in 1..Len(ledger) : ledger[i].username = username}

\* C18: get_user_status_history returns at most 20 records, each a different
\* row of the ledger with the username asked for, from the most recent
\* started_at to the oldest; it returns all the rows of the user when they are
\* 20 or fewer and otherwise 20 of them, none older than a row left out; on a
\* store fault it returns the empty list; and the call changes no ledger row.
C18_HistoryMostRecentFirst ==
    /\ [](result.some /\ result.v.fn = "get_user_status_history" =>
            LET h == result.v.ret
                mine == RowsOfUser(result.v.username)
            IN  /\ Len(h) <= 20
                /\ \A k \in 1..Len(h) :
                       /\ h[k].username = result.v.username
                       /\ \E i \in mine : ledger[i] = h[k]
                /\ \A k, l \in 1..Len(h) :
                       k < l => /\ h[k].started_at >= h[l].started_at
                                /\ h[k].apex_request_id # h[l].apex_request_id
                /\ result.v.faulted => h = << >>
                /\ ~result.v.faulted =>
                       /\ Len(h) = IF Cardinality(mine) < 20 THEN Cardinality(mine) ELSE 20
                       /\ \A i \in mine :
                              (\A k \in 1..Len(h) : h[k] # ledger[i]) =>
                                  \A k \in 1..Len(h) : ledger[i].started_at <= h[k].started_at)
    /\ [][ledger' = ledger]_vars

\* a user with more than 20 rows got 20 of them
C18_Witness ==
    /\ result.some /\ result.v.fn = "get_user_status_history"
    /\ Cardinality(RowsOfUser(result.v.username)) > 20
    /\ Len(result.v.ret) = 20
    /\ result.v.ret[1].started_at > result.v.ret[20].started_at

----------------------------------------------------------------------------
(* The validator called directly, on texts made of up to MaxPieces pieces *)

\* resource "x" {}
ExampleValid == <<"r", "e", "s", "o", "u", "r", "c", "e", " ", "\"", "x", "\"", " ", "{", "}">>
\* no braces
ExampleNoBraces == <<"n", "o", " ", "b", "r", "a", "c", "e", "s">>

RECURSIVE TextsOf(_)
TextsOf(n) ==
    LET Pieces == {required_sections[k] : k \in 1..Len(required_sections)} \cup
                  { <<"{">>, <<"}">>, <<" ">>, <<"x">>, <<"r", "e", "s">>,
                    <<"o", "u", "r", "c", "e">>, ExampleValid, ExampleNoBraces }
    IN  IF n = 0 THEN { << >> }
        ELSE TextsOf(n - 1) \cup {t \o piece : t \in TextsOf(n - 1), piece \in Pieces}

\* gitlab_service lines 98-133
CallValidateTerraformFiles ==
    /\ ~result.some
    /\ \E terraform_content \in TextsOf(MaxPieces) :
         result' = Some([fn |-> "validate_terraform_files",
                         terraform_content |-> terraform_content,
                         ret |-> validate_terraform_files(terraform_content)])
    /\ UNCHANGED <<dbVars, glVars, db_instance, cacheVars, pc, req, loc, trace,
                   response, nreq, failed_ids, recovered, threaded>>

\* no request is being served and no store is connected
InitDirect ==
    /\ AtRest
    /\ requests_view = [id \in RequestIds |-> IF id = 1 THEN Some(BaseRow) ELSE NoneT]
    /\ ledger = << >>
    /\ clock = 1
    /\ db_instance = "none"

SpecValidator == InitDirect /\ [][CallValidateTerraformFiles]_vars

\* the text is some head, then s, then some tail
OccursIn(s, text) ==
    \E n \in 0..Len(text) :
        /\ n + Len(s) <= Len(text)
        /\ \A k \in 1..Len(s) : text[n + k] = s[k]

\* resource, module, provider, variable, output
SectionWords ==
    { <<"r", "e", "s", "o", "u", "r", "c", "e">>, <<"m", "o", "d", "u", "l", "e">>,
      <<"p", "r", "o", "v", "i", "d", "e", "r">>, <<"v", "a", "r", "i", "a", "b", "l", "e">>,
      <<"o", "u", "t", "p", "u", "t">> }

\* C19: is_valid is true exactly when the text holds an opening and a closing
\* brace and one of the words resource, module, provider, variable, output;
\* errors holds the message of the braces if that check fails, then the
\* message of the sections if that check fails, and nothing else, so that
\* is_valid is true exactly when errors is empty; the text resource "x" {}
\* gives no error and the text no braces gives both.
C19_ValidatorChecks ==
    result.some /\ result.v.fn = "validate_terraform_files" =>
        LET text == result.v.terraform_content
            ret == result.v.ret
            braces == OccursIn(<<"{">>, text) /\ OccursIn(<<"}">>, text)
            section == \E w \in SectionWords : OccursIn(w, text)
        IN  /\ ret.is_valid = (braces /\ section)
            /\ ret.is_valid = (ret.errors = << >>)
            /\ ret.errors = (IF braces THEN << >> ELSE <<"no_blocks">>) \o
                            (IF section THEN << >> ELSE <<"no_section">>)
            /\ Len(ret.errors) \in {0, 1, 2}
            /\ text = ExampleValid => ret.is_valid /\ ret.errors = << >>
            /\ text = ExampleNoBraces => ~ret.is_valid /\ Len(ret.errors) = 2

\* a text with a keyword and only one of the two braces was refused for its
\* braces alone
C19_Witness ==
    /\ result.some /\ result.v.fn = "validate_terraform_files"
    /\ OccursIn(<<"{">>, result.v.terraform_content)
    /\ ~OccursIn(<<"}">>, result.v.terraform_content)
    /\ result.v.ret.errors = <<"no_blocks">>

----------------------------------------------------------------------------
(* The two filters called directly *)

RECURSIVE StringsOf(_)
StringsOf(n) ==
    LET Alphabet == {"a", "b", ",", " ", "[", "]"}
    IN  IF n = 0 THEN { << >> }
        ELSE StringsOf(n - 1) \cup {t \o <<c>> : t \in StringsOf(n - 1), c \in Alphabet}

RECURSIVE ListsOf(_)
ListsOf(n) ==
    LET Items == { [t |-> "none"], [t |-> "bool", b |-> FALSE], [t |-> "int", n |-> 0],
                   [t |-> "int", n |-> 7], PyStr(<< >>), PyStr(<<"a">>), PyStr(<<"b">>),
                   PyStr(<<"a", " ">>) }
    IN  IF n = 0 THEN { << >> }
        ELSE ListsOf(n - 1) \cup {l \o <<item>> : l \in ListsOf(n - 1), item \in Items}

\* None, booleans, integers, strings of up to MaxChars characters and lists
\* of up to MaxItems items
FilterInputs ==
    { [t |-> "none"], [t |-> "bool", b |-> FALSE], [t |-> "bool", b |-> TRUE],
      [t |-> "int", n |-> 0], [t |-> "int", n |-> 7], [t |-> "int", n |-> 12] }
        \cup {PyStr(chars) : chars \in StringsOf(MaxChars)}
        \cup {PyList(items) : items \in ListsOf(MaxItems)}

\* {{ value | to_terraform_list }}
CallToTerraformList ==
    /\ ~result.some
    /\ \E value \in FilterInputs :
         result' = Some([fn |-> "_to_terraform_list", value |-> value,
                         ret |-> _to_terraform_list(value)])
    /\ UNCHANGED <<dbVars, glVars, db_instance, cacheVars, pc, req, loc, trace,
                   response, nreq, failed_ids, recovered, threaded>>

\* {{ value | to_terraform_string }}
CallToTerraformString ==
    /\ ~result.some
    /\ \E value \in FilterInputs :
         result' = Some([fn |-> "_to_terraform_string", value |-> value,
                         ret |-> _to_terraform_string(value)])
    /\ UNCHANGED <<dbVars, glVars, db_instance, cacheVars, pc, req, loc, trace,
                   response, nreq, failed_ids, recovered, threaded>>

SpecFilters == InitDirect /\ [][CallToTerraformList \/ CallToTerraformString]_vars

\* the items each in double quotes, in their order, with ", " between them,
\* in brackets
ListLiteral(items) ==
    <<"[">> \o join([i \in 1..Len(items) |-> <<"\"">> \o Str(items[i]) \o <<"\"">>]) \o <<"]">>

\* the stripped pieces between the commas of what stands between the brackets
ItemsBetweenBrackets(value) ==
    LET pieces == split(SubSeq(value.chars, 2, Len(value.chars) - 1))
    IN  [i \in 1..Len(pieces) |-> PyStr(strip(pieces[i]))]

\* C20: the list helper gives [] for an empty or falsy value, the one quoted
\* value in brackets for a single scalar, the quoted items in input order
\* joined by ", " in brackets for a list, and for a string in brackets what
\* it gives for the list of its stripped comma-separated items; the string
\* helper gives null for None and the value in double quotes otherwise.
C20_FilterLiterals ==
    /\ result.some /\ result.v.fn = "_to_terraform_list" =>
         LET value == result.v.value
             ret == result.v.ret
         IN  /\ ~Truthy(value) => ret = <<"[", "]">>
             /\ Truthy(value) /\ value.t # "list" /\ ~Bracketed(value) =>
                  ret = ListLiteral(<<value>>)
             /\ Truthy(value) /\ value.t = "list" => ret = ListLiteral(value.items)
             /\ Truthy(value) /\ Bracketed(value) =>
                  ret = _to_terraform_list(PyList(ItemsBetweenBrackets(value)))
    /\ result.some /\ result.v.fn = "_to_terraform_string" =>
         /\ result.v.value.t = "none" => result.v.ret = <<"n", "u", "l", "l">>
         /\ result.v.value.t # "none" =>
              result.v.ret = <<"\"">> \o Str(result.v.value) \o <<"\"">>

----------------------------------------------------------------------------
(* Rendering in the orchestrator *)

\* the template has a syntax error or names a variable the data do not hold
Unrenderable(template_str, data) ==
    \E i \in 1..Len(template_str) :
        \/ template_str[i].k = "bad"
        \/ template_str[i].k = "var" /\ template_str[i].v \notin DOMAIN data

Rendered(t) == \E i \in 1..Len(trace[t]) : trace[t][i].op = "render_terraform_code"

\* C21: rendering a template that has invalid syntax or references a name
\* absent from the data fails and produces no text, and the attempt ends at
\* the render gate with 500, before validation, the token lookup, the
\* project lookup and the publication.
C21_RenderFailsOnUndefined ==
    \A t \in Threads :
        Rendered(t) /\ Unrenderable(loc[t].template.v, loc[t].resource_data) =>
            /\ ~loc[t].terraform_code.some
            /\ Ended(t)
            /\ response[t].code = 500
            /\ OrchestratorOps(t) = SubSeq(GateOrder, 1, 3)

----------------------------------------------------------------------------
(* render_terraform_code called directly, between calls of get_jinja_template
   that change the template cache *)

\* resource "x" {} has no placeholder
RenderTemplates == {T_ok, T_badsyntax, T_nobrace, LitText(ExampleValid)}

RenderData == {BaseRow, [BaseRow EXCEPT !.name = "db2"], NoNameRow}

\* jinja_service lines 46-66, called as on terraform_routes line 83: the
\* caller keeps the mapping it passed and receives the text
CallRenderTerraformCode ==
    /\ nreq < MaxRequests
    /\ \E template_str \in RenderTemplates, data \in RenderData :
         LET code == render_terraform_code(template_str, data)
         IN  /\ trace' = [trace EXCEPT ![1] =
                   Append(@, [op |-> "render_terraform_code", template_str |-> template_str,
                              data |-> data, out |-> code])]
             /\ loc' = [loc EXCEPT ![1].resource_data = data, ![1].terraform_code = code]
    /\ nreq' = nreq + 1
    /\ UNCHANGED <<dbVars, glVars, db_instance, cacheVars, pc, req, response,
                   failed_ids, recovered, threaded, result>>

InitRender ==
    /\ AtRest
    /\ requests_view = [id \in RequestIds |-> IF id = 1 THEN Some(BaseRow) ELSE NoneT]
    /\ ledger = << >>
    /\ clock = 1
    /\ db_instance = "ok"

SpecRender == InitRender /\ [][CallRenderTerraformCode \/ CallGetJinjaTemplate]_vars

Renders == {i \in 1..Len(trace[1]) : trace[1][i].op = "render_terraform_code"}

\* the positions of the placeholders of a template
Placeholders(template_str) == {i \in 1..Len(template_str) : template_str[i].k # "lit"}

----------------------------------------------------------------------------
(* The service handling generation requests in two workers at once: the
   handler takes no lock, so the steps of two attempts interleave freely.
   Two attempts are followed.  Request 2 has a row of its own, named as the
   row of request 1 or not. *)

InitThreaded ==
    /\ \E name \in {"db1", "db2"} :
         requests_view =
             [id \in RequestIds |->
                 IF id = 1 THEN Some(BaseRow)
                 ELSE IF id = 2 THEN Some([BaseRow EXCEPT !.id = 2, !.name = name])
                 ELSE NoneT]
    /\ tf_template = TemplateTable
    /\ ledger = << >>
    /\ clock = 1
    /\ db_instance = "ok"
    /\ cache_templates = << >>
    /\ timer = 0
    /\ gl_branches = << >>
    /\ gl_mrs = << >>
    /\ pc = [t \in Threads |-> "idle"]
    /\ req = [t \in Threads |-> InvalidPayload]
    /\ loc = [t \in Threads |-> NoLocals]
    /\ trace = [t \in Threads |-> << >>]
    /\ response = [t \in Threads |-> NoResponse]
    /\ nreq = 0
    /\ failed_ids = {}
    /\ recovered = {}
    /\ threaded = TRUE
    /\ result = NoneT

SpecThreaded == InitThreaded /\ [][\E t \in Threads : Handler(t)]_vars

\* both workers are serving an attempt for the same request id
Overlapping ==
    /\ \A t \in Threads : req[t].valid /\ pc[t] \notin {"idle", "done"}
    /\ req[1].request_id = req[2].request_id

\* C23: while two attempts for the same request id overlap, and after both
\* have returned, the ledger holds exactly one row for that id; once both
\* have returned, its status is the terminal status of one of the two
\* attempts.
C23_OverlapLeavesOneRow ==
    /\ Overlapping /\ (\A t \in Threads : Len(trace[t]) > 0)
           => Cardinality(RowsOf(req[1].request_id)) = 1
    /\ (\A t \in Threads : Ended(t)) /\ req[1].request_id = req[2].request_id =>
           /\ Cardinality(RowsOf(req[1].request_id)) = 1
           /\ \A i \in RowsOf(req[1].request_id) :
                  \E t \in Threads :
                      ledger[i].status = IF response[t].code = 200 THEN "SUCCESS" ELSE "FAILED"

\* worker t serves a request that succeeds when it is served alone, while
\* the other worker serves or has served a request with another id
BesideAnother(t) ==
    /\ req[t].valid /\ req[t].username = "alice" /\ req[t].cloud_id = "aws"
    /\ req[t].resource_type = "rds"
    /\ requests_view[req[t].request_id].some
    /\ \E u \in Threads \ {t} : req[u].valid /\ req[u].request_id # req[t].request_id

\* C24: an attempt served beside an attempt for another request id ends as
\* it ends alone, with 200, and what it published stays as it published it:
\* its branch exists and holds exactly its files, whatever the other attempt
\* does before, during or after it.
C24_DifferentIdsIndependent ==
    \A t \in Threads :
        BesideAnother(t) /\ Ended(t) =>
            /\ response[t].code = 200
            /\ loc[t].source_branch \in DOMAIN gl_branches
            /\ gl_branches[loc[t].source_branch] = loc[t].terraform_files

----------------------------------------------------------------------------
(* ssp_api_new: the decorator validate_jwt in front of
   generate_terraform_config.  A header is absent or is the list of the words
   token.split() gives. *)

\* the credentials: good is signed with JWT_SECRET and carries the claim
\* user, nouser is signed but has no claim user, forged is signed with
\* another key
Authorizations ==
    { NoneT, Some(<< >>), Some(<<"Bearer">>), Some(<<"good">>), Some(<<"Bearer", "good">>),
      Some(<<"Bearer", "forged">>), Some(<<"Bearer", "nouser">>), Some(<<"Basic", "good">>) }

\* validate_jwt calling the handler whenever the header has a second word
validate_jwt_unverified(token) ==
    IF ~token.some THEN [code |-> 401, error |-> "Token missing", f |-> FALSE]
    ELSE IF Len(token.v) < 2 THEN [code |-> 401, error |-> "Invalid token", f |-> FALSE]
    ELSE [code |-> 0, error |-> "", f |-> TRUE]

\* security lines 9-24: what decorated answers by itself (code, error) and
\* whether it calls the handler (f).  token.split()[1] raises IndexError on a
\* header of fewer than two words; then current_app.config is evaluated, and
\* current_app is not a name of the module security (line 3 imports request
\* and jsonify only): NameError, before jwt.decode is called.  Both are
\* caught by `except Exception`, so line 24 is never reached.
validate_jwt(token) ==
    IF ~token.some THEN [code |-> 401, error |-> "Token missing", f |-> FALSE]
    ELSE IF Len(token.v) < 2 THEN [code |-> 401, error |-> "Invalid token", f |-> FALSE]
    ELSE [code |-> 401, error |-> "Invalid token", f |-> FALSE]

\* POST /api/v1/generate: the decorator, then the handler if it is called
\* (routes lines 8-14: the schema is validated first)
CallGenerateTerraformConfig ==
    /\ nreq < MaxRequests
    /\ \E token \in Authorizations, valid \in BOOLEAN :
         LET d == validate_jwt(token)
         IN  /\ trace' = [trace EXCEPT ![1] =
                   Append(@, [op |-> "generate_terraform_config", token |-> token,
                              f |-> d.f,
                              code |-> IF ~d.f THEN d.code ELSE IF valid THEN 200 ELSE 400])]
             /\ pc' = [pc EXCEPT ![1] = IF d.f /\ valid THEN "handler" ELSE "done"]
    /\ nreq' = nreq + 1
    /\ UNCHANGED <<dbVars, glVars, db_instance, cacheVars, req, loc, response,
                   failed_ids, recovered, threaded, result>>

SpecGate == InitDirect /\ [][CallGenerateTerraformConfig]_vars

\* the credential is a token signed with the secret that names its user
Verifies(token) == token.some /\ Len(token.v) >= 2 /\ token.v[2] = "good"

\* C25: with the gate in front of the handler, a request whose credential
\* header is absent, malformed or does not verify is answered 401 and the
\* handler is not called: nothing is validated, looked up, written or
\* published; the handler is called only for a verified credential.
C25_GateRejectsUnverified ==
    /\ [](\A i \in 1..Len(trace[1]) :
             /\ ~Verifies(trace[1][i].token) => trace[1][i].code = 401 /\ ~trace[1][i].f
             /\ trace[1][i].f => Verifies(trace[1][i].token))
    /\ [][\A i \in 1..Len(trace'[1]) :
             i > Len(trace[1]) /\ ~Verifies(trace'[1][i].token) =>
                 /\ pc'[1] = "done"
                 /\ UNCHANGED <<dbVars, glVars, cacheVars>>]_vars

\* a header with a token signed with another key was answered 401
C25_Witness ==
    \E i \in 1..Len(trace[1]) :
        /\ trace[1][i].token = Some(<<"Bearer", "forged">>)
        /\ trace[1][i].code = 401
        /\ ~trace[1][i].f

----------------------------------------------------------------------------
(* Memoized absence of a template *)

\* the call made no contact with the store and returned None
NoneFromCache(e) == ~e.ret.some /\ e.queries = << >> /\ ~e.acq

\* C26: get_jinja_template memoizes None as any other value: after a call
\* that reached the store and returned None, because no template was stored
\* or because the store faulted, every later call with the same key made
\* less than 600 seconds after it returns None without querying the store,
\* whatever the store holds by then.
C26_NoneMemoizedWithinTtl ==
    LET log == trace[1]
    IN  \A j \in Latest(log) :
            \A i \in FetchesBefore(log, j) :
                ~log[i].ret.some /\ log[j].time < log[i].time + ttl
                    => NoneFromCache(log[j])

\* the same as long as the entry has not been evicted: fewer than 100 other
\* keys were asked for since the key was last used
C26_NoneMemoizedUntilEvicted ==
    LET log == trace[1]
    IN  \A j \in Latest(log) :
            LET F == FetchesBefore(log, j)
            IN  /\ F # {}
                /\ ~log[Max(F)].ret.some
                /\ log[j].time < log[Max(F)].time + ttl
                /\ Cardinality(KeysSinceLastUse(log, j)) < maxsize
                => NoneFromCache(log[j])

\* a call for version 1.0 faulted in the store, and a later call, made within
\* 600 seconds while the store held the template and did not fault, returned
\* None from the cache
C26_Witness ==
    LET log == trace[1]
    IN  \E i, j \in 1..Len(log) :
            /\ i < j
            /\ log[i].key = CacheKey("1.0") /\ log[j].key = CacheKey("1.0")
            /\ ~log[i].hit /\ log[i].out = "execute" /\ ~log[i].ret.some
            /\ log[j].time < log[i].time + ttl
            /\ log[j].hit /\ log[j].out = "none" /\ log[j].stored.some
            /\ NoneFromCache(log[j])

----------------------------------------------------------------------------
(* The view names of the orchestrator's lookups *)

\* the calls of a worker's attempt that build a view name from their arguments
ViewLookups(t) ==
    {i \in 1..Len(trace[t]) :
        trace[t][i].op \in {"get_resource_data", "get_gitlab_project_id"}}

====
